---- MODULE Spec2Model ----
(***************************************************************************)
(* Capture controller of the six-lead ECG visualizer                       *)
(* (src/src/pages/SixLeadECG/ECGVisualizer.jsx, second component copy,    *)
(* lines 1002-3033): connect / read loop / calibration gate / recording   *)
(* session / auto and manual stop / post-stop wait / auto-start.          *)
(*                                                                         *)
(* React semantics kept by the model:                                      *)
(*  - useState values are committed atomically with the handler that sets  *)
(*    them; click handlers and effects see the committed values;           *)
(*  - a long-lived invocation (the serial read loop of connect, the        *)
(*    Bluetooth line callback) keeps the props and state of the render in  *)
(*    which it was created: loopEnv holds what it captured;                *)
(*  - useRef cells are shared and always current;                          *)
(*  - an effect re-runs (cleanup, then body) exactly when one of its       *)
(*    dependencies changed.                                                *)
(* Time advances in ticks of 5 s, the common step of the calibration       *)
(* timeout (5 s), the wait period (10 s) and the capture window (15 s).    *)
(* A timer of d ms is due after d \div TickMs ticks and fires before the    *)
(* next tick; delays below a tick (the 500 ms settle delay, the 100 ms     *)
(* period of the wait interval) elapse between two ticks, and handlers     *)
(* that run in the meantime are interleaved before the timer fires.        *)
(*                                                                         *)
(* Spec, SpecCapture and SpecDisplay follow the controller and the ring    *)
(* buffers; there a sample line carries its lead values as they are sent.  *)
(* The signal chain of a sample line is followed step by step in           *)
(* specifications of its own: SpecFilter (filterSample under sample-rate   *)
(* changes), SpecDetector (detectRPeakMultiLead, sample by sample, clock   *)
(* 'now' in ms), SpecBeats (the beat track under registered peaks) and     *)
(* SpecHRV (the HRV computations of the visualizer and of the report       *)
(* analysis).  Their arithmetic is fixed point.                            *)
(***************************************************************************)
EXTENDS Integers, Sequences, FiniteSets, TLC

(* ------------------------------ bounds -------------------------------- *)
MaxSamples == 2        \* sample lines the device sends in one run (Spec)
MaxConnects == 2       \* successful connects in one run (Spec)
MaxCaptureSamples == 16 \* sample lines in one run of SpecCapture
MaxDisplaySamples == 4  \* sample lines in one run of SpecDisplay
MaxFilterSamples == 4   \* sample lines in one run of SpecFilter
MaxDetSamples == 20     \* sample lines in one run of SpecDetector
MaxSpikes == 3          \* of which so many differ from the baseline
MaxBeats == 4           \* peaks registered in one run of SpecBeats
MaxLines == 2           \* lines read in one run of SpecParser
MaxStreamLen == 4       \* characters of a stream in SpecLines
MaxDeriveLen == 2       \* samples of I and II in SpecDerive
MaxLinkLines == 3       \* lines read in one run of SpecLink
QuietLines == 48         \* lines of a device at rest that open a run of SpecMonitorBeats
MaxMonitorLines == 54    \* lines read in one run of SpecMonitorBeats
MaxScanOverrun == 6      \* lines read beyond a full buffer in SpecMonitorScan
MaxCycles == 2           \* connects and resets in one run of SpecMonitorSession
MaxSessionSeconds == 20  \* seconds one run of SpecMonitorSession lasts
MaxSessionLines == 1     \* lines read in one run of SpecMonitorSession
MaxSynthBeats == 4      \* designed beats of a synthetic lead II in SpecSynth
MaxRiskRuns == 2        \* times the metrics are computed from one recording
MaxRiskPeaks == 3       \* peaks of a recording in SpecRisk
MaxHrvLen == 6          \* longest interval / peak list given to the HRV computations

(* -------------------------- program constants ------------------------- *)
CAPTURE_SECONDS == 15
WAIT_SECONDS == 10
CALIB_TIMEOUT_MS == 5000
SETTLE_DELAY_MS == 500

Rates == {1, 2}       \* values the sample-rate input is set to
Windows == {1, 2}     \* values the window input is set to

TickMs == CALIB_TIMEOUT_MS
CaptureTicks == (CAPTURE_SECONDS * 1000) \div TickMs
\* a timeout armed for twice the calibration time
CalibTicksDoubled == (2 * CALIB_TIMEOUT_MS) \div TickMs
CalibTicks == CALIB_TIMEOUT_MS \div TickMs
SettleTicks == SETTLE_DELAY_MS \div TickMs
\* the interval callback adds 0.1 s every 100 ms until elapsed >= WAIT_SECONDS
WaitTicks == (WAIT_SECONDS * 1000) \div TickMs

NoTimer == 0 - 1
Leads == 1..6         \* Lead I, Lead II, Lead III, aVR, aVL, aVF

Min(a, b) == IF a < b THEN a ELSE b
Max(a, b) == IF a > b THEN a ELSE b

VARIABLES
  connected, isCalibrating, isRecording, isWaiting, showReport, recordedData,
  sampleRate, secondsWindow,
  portRef, runningRef, bluetoothRunningRef, readerAlive, loopEnv,
  calibTimeout, orphanTimeouts,
  bufferRef, writeIndexRef,
  recordRef, autoStopTriggeredRef, manualStopRef,
  freezeDisplayRef, frozenBufferRef,
  waitElapsed, autoTimer,
  seq, connects,
  \* DSP filter (one-pole high-pass and low-pass per lead)
  sampleRateRef, hpAlphaRef, lpAlphaRef, hpStateRef, lpStateRef,
  \* the 'Bandpass' checkbox
  filterOn,
  \* beat detector, heart rate and HRV
  now, rPeakBufferRef, lastRPeakRef, rrIntervalsRef, heartRate, hrvMetrics,
  spikes,
  \* the connection (count of connects) during which lastRPeakRef was set
  peakConnect,
  \* report analysis (RiskAnalysis.jsx): detected peak positions, metrics
  rPeaks, metrics,
  \* sample parser: the line last read and the lead vector parsed from it
  lineIn, arrOut,
  \* line source: characters still to arrive, the partial-line buffer
  \* (textBuffer of connect, container of LineBreakTransformer), the lines
  \* handed on, the characters taken so far, which of the two, stream end
  stream, textBuffer, linesOut, consumed, sourceKind, sourceClosed,
  \* lead derivation: the measured arrays I and II, the six-lead arrays
  \* derived from them and by which code
  derivIn, derived,
  \* the last call that opened or closed the link
  linkOp,
  \* RiskAnalysis: what the analysis is given and the metrics it returns
  riskIn, riskOut,
  \* calculateRiskScore: the five statuses it is called with, what it returns
  scoreIn, scoreOut,
  \* lead II of the leadData RiskAnalysis receives, and how often the metrics
  \* were computed from it
  leadData, riskRuns,
  \* ECGMonitorUI (single lead): component state, the closure of the read
  \* loop, pending timeouts, refs, the locals of the detection effect
  port, calibrating, monitoringActive, sessionComplete,
  serialReader, sessionTimers,
  samplesRef, beatsRef, lastPeakTimeRef, lastPeakTime, lastProcessedIndex,
  \* Date.now(), the time of the last detection tick, lines read so far
  monitorNow, lastTickAt, serialLines,
  \* observation: samples appended since the buffer was last emptied, the
  \* first of them no tick has examined yet, the last range passed over;
  \* the cycles started, the cycle of the timeout that fired last, the last
  \* handler of ECGMonitorUI that ran
  appended, nextUnexamined, passedOver, cycles, firedCycle, monitorOp,
  \* observation only
  lastOp, calibAge, calibByConnect, sinceStop, settleAge,
  autoStopsInSession, stopsInSession, reportBy,
  dspOp, stateRates

vars == << connected, isCalibrating, isRecording, isWaiting, showReport,
           recordedData, sampleRate, secondsWindow,
           portRef, runningRef, bluetoothRunningRef, readerAlive, loopEnv,
           calibTimeout, orphanTimeouts, bufferRef, writeIndexRef,
           recordRef, autoStopTriggeredRef, manualStopRef,
           freezeDisplayRef, frozenBufferRef, waitElapsed, autoTimer,
           seq, connects,
           sampleRateRef, hpAlphaRef, lpAlphaRef, hpStateRef, lpStateRef,
           filterOn,
           now, rPeakBufferRef, lastRPeakRef, rrIntervalsRef, heartRate,
           hrvMetrics, spikes, peakConnect, rPeaks, metrics,
           lineIn, arrOut,
           stream, textBuffer, linesOut, consumed, sourceKind, sourceClosed,
           derivIn, derived, linkOp, riskIn, riskOut, scoreIn, scoreOut, leadData, riskRuns,
           port, calibrating, monitoringActive, sessionComplete, serialReader,
           sessionTimers, samplesRef, beatsRef, lastPeakTimeRef, lastPeakTime,
           lastProcessedIndex, monitorNow, lastTickAt, serialLines, appended,
           nextUnexamined, passedOver, cycles, firedCycle, monitorOp,
           lastOp, calibAge, calibByConnect, sinceStop, settleAge,
           autoStopsInSession, stopsInSession, reportBy,
           dspOp, stateRates >>

filterVars == << sampleRateRef, hpAlphaRef, lpAlphaRef, hpStateRef, lpStateRef,
                stateRates >>
detVars == << now, rPeakBufferRef, lastRPeakRef, rrIntervalsRef, heartRate,
             hrvMetrics, spikes , peakConnect >>
reportVars == << rPeaks, metrics >>
parserVars == << lineIn, arrOut >>
sourceVars == << stream, textBuffer, linesOut, consumed, sourceKind,
                sourceClosed >>
deriveVars == << derivIn, derived >>
riskVars == << riskIn, riskOut, scoreIn, scoreOut, leadData, riskRuns >>
monitorVars ==
  << port, calibrating, monitoringActive, sessionComplete, serialReader,
     sessionTimers, samplesRef, beatsRef, lastPeakTimeRef, lastPeakTime,
     lastProcessedIndex, monitorNow, lastTickAt, serialLines, appended,
     nextUnexamined, passedOver, cycles, firedCycle, monitorOp >>
settingVars == << filterOn >>
dataVars == << parserVars, sourceVars, deriveVars, riskVars, monitorVars,
              settingVars >>
linkVars == << linkOp >>
ioVars == << dataVars, linkVars >>

(* ------------------------------ data ---------------------------------- *)
EmptyLeads == [l \in Leads |-> << >>]

\* the lead vector of the n-th sample line "2n,4n" (2-value format):
\* lead3 = lead2 - lead1, avr = 0 - (la+ll)/2, avl = la - ll/2, avf = ll - la/2
DeriveLeads(lead1, lead2) ==
  << lead1, lead2, lead2 - lead1,
     0 - ((lead1 + lead2) \div 2),
     lead1 - (lead2 \div 2),
     lead2 - (lead1 \div 2) >>

LineValues(n) == DeriveLeads(2 * n, 4 * n)

\* a capacity that follows the sample rate alone
CapacityRateOnly(rate, window) == Max(1, rate)

\* Math.max(1, Math.floor(sampleRate * secondsWindow))
Capacity(rate, window) == Max(1, rate * window)

NewBuffers(rate, window) ==
  [l \in Leads |-> [i \in 1..Capacity(rate, window) |-> 0]]

NoMeta == [has |-> FALSE, excerptSeconds |-> <<0, 1>>, captureAt |-> 0 - 1]
NoReport == [present |-> FALSE, leads |-> EmptyLeads, meta |-> NoMeta]
NoFrozen == [present |-> FALSE, bufs |-> EmptyLeads]
NoRecord == [active |-> FALSE, hasData |-> FALSE, data |-> EmptyLeads,
             count |-> 0, elapsed |-> 0]

\* arr.slice(a, b) with 0 <= a, b <= arr.length
Slice(arr, a, b) == SubSeq(arr, a + 1, b)


(* ---------------------------- live display ---------------------------- *)
\* drawLeadTrace, live branch: capacity slots read from the cursor onwards
LiveView(bufs, idx) ==
  LET samples == Len(bufs[1])
  IN [l \in Leads |->
        [s \in 1..samples |-> bufs[l][((idx + (s - 1)) % samples) + 1]]]

\* a render that always reads the live ring buffer
DisplayedLive(frozenFlag, frozen, bufs, idx) == LiveView(bufs, idx)

\* drawAll: the sample arrays a render draws
Displayed(frozenFlag, frozen, bufs, idx) ==
  IF frozenFlag /\ frozen.present THEN frozen.bufs ELSE LiveView(bufs, idx)

(* ----------------------------- DSP filter ----------------------------- *)
\* Filter arithmetic is carried in fixed point: signal values and filter
\* state in thousandths of a millivolt, coefficients in thousandths.
DEFAULT_SAMPLE_RATE == 125
FixedOne == 1000
\* 1 / (2 * Math.PI * fc) seconds, as microseconds for fc in millihertz
RcScale == 159154943
HpFcMilliHz == 500
LpFcMilliHz == 40000
RcMicros(fcMilliHz) == RcScale \div fcMilliHz
\* dt = 1 / Math.max(1, sampleRateRef.current), in microseconds
DtMicros(rate) == 1000000 \div Max(1, rate)
\* hpRc / (hpRc + dt)
HpAlpha(rate) ==
  (FixedOne * RcMicros(HpFcMilliHz)) \div (RcMicros(HpFcMilliHz) + DtMicros(rate))
\* dt / (lpRc + dt)
LpAlpha(rate) ==
  (FixedOne * DtMicros(rate)) \div (RcMicros(LpFcMilliHz) + DtMicros(rate))

ZeroHp == [l \in Leads |-> [x1 |-> 0, y1 |-> 0]]
ZeroLp == [l \in Leads |-> [y1 |-> 0]]

\* yHP = aHP * (stHP.y1 + x - stHP.x1)
HpOut(aHP, stHP, x) == (aHP * (stHP.y1 + x - stHP.x1)) \div FixedOne
\* y = stLP.y1 + aLP * (yHP - stLP.y1)
LpOut(aLP, stLP, yHP) == stLP.y1 + ((aLP * (yHP - stLP.y1)) \div FixedOne)

\* filterSample(leadIdx, x): the high-pass and low-pass state it leaves
HpAfter(aHP, stHP, x) == [x1 |-> x, y1 |-> HpOut(aHP, stHP, x)]
LpAfter(aLP, stLP, yHP) == [y1 |-> LpOut(aLP, stLP, yHP)]

(* --------------------------- stopRecording ---------------------------- *)
\* an excerpt that is always the tail of the session
ExcerptTail(arr, rate, captureSecond) ==
  LET oneSecondSamples == 1 * rate
  IN IF Len(arr) > oneSecondSamples
       THEN Slice(arr, Len(arr) - oneSecondSamples, Len(arr))
       ELSE arr

\* auto-stop excerpt of one lead array (stopRecording, auto branch)
Excerpt(arr, rate, captureSecond) ==
  LET oneSecondSamples == 1 * rate
      sampleIndexEnd == captureSecond * rate
      startIdx == Max(0, sampleIndexEnd - oneSecondSamples)
  IN IF Len(arr) >= sampleIndexEnd
       THEN Slice(arr, Max(0, startIdx), Min(sampleIndexEnd, Len(arr)))
       ELSE IF Len(arr) > oneSecondSamples
              THEN Slice(arr, Len(arr) - oneSecondSamples, Len(arr))
              ELSE arr

AutoSnap(data, rate, captureSecond) ==
  [leads |-> [l \in Leads |-> Excerpt(data[l], rate, captureSecond)],
   meta |-> [has |-> TRUE, excerptSeconds |-> <<1, 1>>,
             captureAt |-> captureSecond]]

\* a manual stop that keeps the one-second excerpt like an auto-stop
ManualSnapExcerpt(data, rate) ==
  [leads |-> [l \in Leads |-> Excerpt(data[l], rate, CAPTURE_SECONDS)],
   meta |-> [has |-> TRUE, excerptSeconds |-> <<Len(data[1]), rate>>,
             captureAt |-> 0 - 1]]

\* user-initiated stop: the entire captured buffer; excerptSeconds is the
\* quotient length / sampleRate, kept as the pair <<length, rate>>
ManualSnap(data, rate) ==
  [leads |-> [l \in Leads |-> data[l]],
   meta |-> [has |-> TRUE, excerptSeconds |-> <<Len(data[1]), rate>>,
             captureAt |-> 0 - 1]]

\* normalized: setLead(short, long, snap[long]) for the six leads, both
\* labels naming the same array.  Every lead of snap is an array, so the
\* advancedReport derivation (taken only for a missing lead) is not
\* entered; snap.__meta is not copied into normalized.
Normalize(snap) ==
  [present |-> TRUE, leads |-> [l \in Leads |-> snap.leads[l]], meta |-> NoMeta]

\* a snapshot that copies the slots in storage order
FreezeSnapshotUnrotated(bufs, end) ==
  [present |-> TRUE, bufs |-> [l \in Leads |-> bufs[l]]]

\* manual stop: copy of the ring buffers read from the cursor onwards
FreezeSnapshot(bufs, end) ==
  LET samples == Len(bufs[1])
  IN [present |-> TRUE,
      bufs |-> [l \in Leads |->
                  [s \in 1..samples |-> bufs[l][((end + (s - 1)) % samples) + 1]]]]

\* if (!isRecording && !auto && !recordRef.current.active) return
StopIgnored(auto, seenRecording, rec) == ~seenRecording /\ ~auto /\ ~rec.active

StopVars == << recordRef, isRecording, recordedData, frozenBufferRef,
               freezeDisplayRef, manualStopRef, isWaiting >>

\* stopRecording({auto, captureSecond}) called with the session value rec,
\* in a closure whose isRecording is seenRecording
stopRecording(auto, seenRecording, rec) ==
  IF StopIgnored(auto, seenRecording, rec)
    THEN /\ recordRef' = rec
         /\ UNCHANGED << isRecording, recordedData, frozenBufferRef,
                         freezeDisplayRef, manualStopRef, isWaiting >>
    ELSE /\ recordRef' = [rec EXCEPT !.active = FALSE]
         /\ isRecording' = FALSE
         /\ recordedData' =
              Normalize(IF auto THEN AutoSnap(rec.data, sampleRate, CAPTURE_SECONDS)
                                ELSE ManualSnap(rec.data, sampleRate))
         /\ IF ~auto
              THEN /\ frozenBufferRef' = FreezeSnapshot(bufferRef, writeIndexRef)
                   /\ freezeDisplayRef' = TRUE
                   /\ manualStopRef' = TRUE
              ELSE /\ frozenBufferRef' = NoFrozen
                   /\ freezeDisplayRef' = FALSE
                   /\ manualStopRef' = manualStopRef
         /\ isWaiting' = TRUE

(* --------------------------- startRecording --------------------------- *)
\* not ((!isSerialConnected && !isBtConnected) || !connected)
StartAllowed(seenConnected) ==
  ~((~portRef /\ ~bluetoothRunningRef) \/ ~seenConnected)

StartVars == << recordRef, autoStopTriggeredRef, manualStopRef,
                frozenBufferRef, freezeDisplayRef, isRecording >>

\* startRecording in a closure whose connected is seenConnected
\* (setShowReport(false) is written by the caller, see ShowReportAfterStart)
startRecording(seenConnected) ==
  IF StartAllowed(seenConnected)
    THEN /\ recordRef' = [active |-> TRUE, hasData |-> TRUE, data |-> EmptyLeads,
                          count |-> 0, elapsed |-> 0]
         /\ autoStopTriggeredRef' = FALSE
         /\ manualStopRef' = FALSE
         /\ frozenBufferRef' = NoFrozen
         /\ freezeDisplayRef' = FALSE
         /\ isRecording' = TRUE
    ELSE UNCHANGED StartVars

ShowReportAfterStart(seenConnected, before) ==
  IF StartAllowed(seenConnected) THEN FALSE ELSE before

(* ------------------------------ effects ------------------------------- *)
\* an auto-start condition that forgets the manual-stop flag
AutoStartCondNoManual(c, cal, rec, rep, w, ms) ==
  c /\ ~cal /\ ~rec /\ ~rep /\ ~w

\* connected && !isCalibrating && !isRecording && !showReport && !isWaiting
\*   && !manualStopRef.current
AutoStartCond(c, cal, rec, rep, w, ms) ==
  c /\ ~cal /\ ~rec /\ ~rep /\ ~w /\ ~ms

\* a dependency list that misses isWaiting
AutoStartDepsNoWaiting == << connected, isCalibrating, isRecording, showReport >>

\* [connected, isCalibrating, isRecording, showReport, isWaiting]
AutoStartDeps == << connected, isCalibrating, isRecording, showReport, isWaiting >>

\* the auto-start effect (500 ms timer) and the wait effect (100 ms
\* interval) after a handler: re-run when a dependency changed, otherwise
\* the timers keep the values baseAuto / baseWait the handler left
Effects(baseAuto, baseWait) ==
  /\ autoTimer' =
       IF AutoStartDeps' # AutoStartDeps
         THEN IF AutoStartCond(connected', isCalibrating', isRecording',
                               showReport', isWaiting', manualStopRef')
                THEN SettleTicks ELSE NoTimer
         ELSE baseAuto
  /\ waitElapsed' =
       IF isWaiting' # isWaiting
         THEN IF isWaiting' THEN 0 ELSE NoTimer
         ELSE baseWait

(* ---------------------------- observation ----------------------------- *)
\* the handlers lastOp tells apart
ObservedOps == { "sample", "sampleDiscarded", "autoStart", "userStart",
                 "userStop", "waitExpire", "calibTimeout" }

AutoCondNow ==
  AutoStartCond(connected, isCalibrating, isRecording, showReport, isWaiting,
                manualStopRef)

\* bookkeeping of what happened: op names the handler, stopped is "auto" or
\* "manual" when stopRecording took effect, started when startRecording did
Observe(op, stopped, started) ==
  /\ lastOp' = IF op \in ObservedOps THEN op ELSE "other"
  /\ calibAge' =
       IF ~isCalibrating' THEN 0
       ELSE IF ~isCalibrating \/ op = "connect" THEN 0
       ELSE IF op = "tick" THEN Min(calibAge + 1, CalibTicks + 1)
       ELSE calibAge
  /\ calibByConnect' =
       IF ~isCalibrating' THEN FALSE
       ELSE IF op = "connect" THEN TRUE
       ELSE IF ~isCalibrating THEN FALSE
       ELSE calibByConnect
  /\ sinceStop' =
       IF stopped # "none" THEN 0
       ELSE IF op = "tick" THEN Min(sinceStop + 1, WaitTicks)
       ELSE sinceStop
  /\ settleAge' =
       IF op = "tick"
         THEN IF AutoCondNow THEN Min(settleAge + 1, SettleTicks + 1) ELSE 0
         ELSE IF AutoCondNow
                 /\ AutoStartCond(connected', isCalibrating', isRecording',
                                  showReport', isWaiting', manualStopRef')
                THEN settleAge ELSE 0
  /\ autoStopsInSession' =
       IF started THEN 0
       ELSE IF stopped = "auto" THEN Min(autoStopsInSession + 1, 2)
       ELSE autoStopsInSession
  /\ stopsInSession' =
       IF started THEN 0
       ELSE IF stopped # "none" THEN Min(stopsInSession + 1, 2)
       ELSE stopsInSession
  /\ reportBy' =
       IF stopped # "none" THEN stopped
       ELSE IF ~recordedData'.present THEN "none"
       ELSE reportBy


(* --------------------------- beat detector ---------------------------- *)
\* lastRPeakRef.current === null
NoPeak == 0 - 1
\* HRV metrics, each in tenths as Math.round(v * 10) / 10 leaves them;
\* meanRR in milliseconds
NoHrv == [sdnn |-> 0, rmssd |-> 0, pnn50 |-> 0, pnn20 |-> 0, meanRR |-> 0]

REFRACTORY_MS == 300       \* (now - lastRPeakRef.current) < 300
PEAK_BUFFER_LEN == 15      \* while (rPeakBufferRef.current.length > 15)
PEAK_BUFFER_MIN == 9       \* if (rPeakBufferRef.current.length < 9) return
PEAK_NEIGHBOURS == 3       \* neighbours within +-3 samples
MIN_THRESHOLD == 150       \* 0.15 mV, in thousandths
RR_MIN_MS == 333
RR_MAX_MS == 1500
ECTOPIC_WINDOW == 8        \* rrIntervalsRef.current.slice(-8)
ECTOPIC_MIN_COUNT == 3     \* if (recentRR.length >= 3)
ECTOPIC_PERCENT == 30      \* if (deviation > 0.30)
RR_KEEP == 60              \* while (rrIntervalsRef.current.length > 60)
HR_WINDOW == 4             \* rrIntervalsRef.current.slice(-4)
HR_MIN_COUNT == 2          \* if (rrIntervalsRef.current.length >= 2)
HR_MIN == 40
HR_MAX == 180
HRV_MIN_COUNT == 5         \* if (rrIntervalsRef.current.length >= 5)
HRV_MIN_LEN == 3           \* if (rr.length < 3) return
NN50_MS == 50
NN20_MS == 20

Abs(x) == IF x < 0 THEN 0 - x ELSE x

RECURSIVE SumSeq(_)
SumSeq(q) ==
  IF q = << >> THEN 0
  ELSE IF Len(q) = 1 THEN q[1]
  ELSE LET half == Len(q) \div 2
       IN SumSeq(SubSeq(q, 1, half)) + SumSeq(SubSeq(q, half + 1, Len(q)))

RECURSIVE MaxSeq(_)
MaxSeq(q) ==
  IF q = << >> THEN 0
  ELSE IF Len(q) = 1 THEN Max(q[1], 0)
  ELSE LET half == Len(q) \div 2
       IN Max(MaxSeq(SubSeq(q, 1, half)), MaxSeq(SubSeq(q, half + 1, Len(q))))

\* arr.slice(-k)
LastK(q, k) == SubSeq(q, Max(1, Len(q) - k + 1), Len(q))

\* Math.round(a / b) for a >= 0, b > 0
RoundDiv(a, b) == (2 * a + b) \div (2 * b)

\* floor of the square root, by bisection on [lo, hi]
RECURSIVE SqrtIn(_, _, _)
SqrtIn(x, lo, hi) ==
  IF lo >= hi THEN lo
  ELSE LET mid == (lo + hi + 1) \div 2
       IN IF mid * mid <= x THEN SqrtIn(x, mid, hi) ELSE SqrtIn(x, lo, mid - 1)

SqrtBound == 46340       \* the largest root of a 32-bit integer
\* Math.round(Math.sqrt(q)) from x = floor(4 * q)
RoundSqrt4(x) == (SqrtIn(x, 0, SqrtBound) + 1) \div 2

(* calculateAdvancedHRV *)
\* a deviation taken from zero instead of from the mean
DeviationFromZero(val, sum, n) == 10 * val

\* val - meanRR in tenths of a millisecond, meanRR = sum / n
Deviation(val, sum, n) == (10 * (n * val - sum)) \div n

\* variance = sum of squared deviations / rr.length, in hundredths of ms^2
Variance100(rr) ==
  LET n == Len(rr)
      sum == SumSeq(rr)
      sq == [i \in 1..n |-> Deviation(rr[i], sum, n) * Deviation(rr[i], sum, n)]
  IN SumSeq(sq) \div n

\* sum over i >= 1 of (rr[i] - rr[i-1])^2
SumSquaredDiffs(rr) ==
  SumSeq([i \in 1..(Len(rr) - 1) |-> (rr[i + 1] - rr[i]) * (rr[i + 1] - rr[i])])

\* number of successive differences above ms milliseconds
NNCount(rr, ms) ==
  Cardinality({i \in 1..(Len(rr) - 1) : Abs(rr[i + 1] - rr[i]) > ms})

\* the metrics setHrvMetrics receives: sdnn, rmssd, pnn50, pnn20 rounded to
\* tenths (held as tenths), meanRR rounded to milliseconds
HrvOf(rr) ==
  LET n == Len(rr)
  IN [sdnn |-> RoundSqrt4(4 * Variance100(rr)),
      rmssd |-> RoundSqrt4((400 * SumSquaredDiffs(rr)) \div (n - 1)),
      pnn50 |-> RoundDiv(1000 * NNCount(rr, NN50_MS), n - 1),
      pnn20 |-> RoundDiv(1000 * NNCount(rr, NN20_MS), n - 1),
      meanRR |-> RoundDiv(SumSeq(rr), n)]

\* calculateAdvancedHRV(): the value of hrvMetrics afterwards
calculateAdvancedHRV(rr, before) ==
  IF Len(rr) < HRV_MIN_LEN THEN before ELSE HrvOf(rr)

(* detectRPeakMultiLead *)
\* push({signal, absSignal, time}), then shift while longer than 15
PushPeakBuffer(buf, signal, t) ==
  LET pushed == Append(buf, [signal |-> signal, time |-> t])
  IN LastK(pushed, PEAK_BUFFER_LEN)

\* v > Math.max(0.15, maxAbs * 0.5, avgAbs * 2)
AboveThreshold(v, buf) ==
  LET abs == [i \in 1..Len(buf) |-> Abs(buf[i].signal)]
  IN /\ v > MIN_THRESHOLD
     /\ 2 * v > MaxSeq(abs)
     /\ v * Len(buf) > 2 * SumSeq(abs)

\* index (from 1) of buf[Math.floor(len / 2)]
MidIdx(buf) == (Len(buf) \div 2) + 1

Neighbours(buf) ==
  {i \in 1..Len(buf) : i # MidIdx(buf) /\ Abs(i - MidIdx(buf)) <= PEAK_NEIGHBOURS}

IsLocalMax(buf) ==
  \A i \in Neighbours(buf) : buf[i].signal < buf[MidIdx(buf)].signal

IsLocalMin(buf) ==
  \A i \in Neighbours(buf) : buf[i].signal > buf[MidIdx(buf)].signal

\* (isLocalMax || (isLocalMin && midSample.signal < -threshold))
\*   && midSample.absSignal > threshold
IsPeak(buf) ==
  LET mid == buf[MidIdx(buf)]
  IN /\ \/ IsLocalMax(buf)
        \/ IsLocalMin(buf) /\ AboveThreshold(0 - mid.signal, buf)
     /\ AboveThreshold(Abs(mid.signal), buf)

\* a plausibility test that lets every interval through
PlausibleAny(rrInterval) == TRUE

\* rrInterval >= 333 && rrInterval <= 1500
Plausible(rrInterval) == rrInterval >= RR_MIN_MS /\ rrInterval <= RR_MAX_MS

\* an ectopic test that accepts every interval
AcceptBeatAlways(rr, rrInterval) == TRUE

\* acceptBeat: fewer than 3 recent intervals, or
\* Math.abs(rrInterval - avgRecentRR) / avgRecentRR <= 0.30
AcceptBeat(rr, rrInterval) ==
  LET recentRR == LastK(rr, ECTOPIC_WINDOW)
      n == Len(recentRR)
      sum == SumSeq(recentRR)
  IN IF n >= ECTOPIC_MIN_COUNT
       THEN ~(100 * Abs(n * rrInterval - sum) > ECTOPIC_PERCENT * sum)
       ELSE TRUE

\* a list that is never trimmed
PushRRUncapped(rr, rrInterval) == Append(rr, rrInterval)

\* push(rrInterval), then shift while longer than 60
PushRR(rr, rrInterval) == LastK(Append(rr, rrInterval), RR_KEEP)

\* a smoothed rate taken from the newest interval alone
SmoothedHRLatest(rr) == RoundDiv(60000, rr[Len(rr)])

\* Math.round(60000 / avgRR), avgRR the mean of slice(-4)
SmoothedHR(rr) ==
  LET recentRRSlice == LastK(rr, HR_WINDOW)
  IN RoundDiv(60000 * Len(recentRRSlice), SumSeq(recentRRSlice))

\* heartRate after an accepted beat left the list rr
HeartRateAfter(rr, before) ==
  IF Len(rr) >= HR_MIN_COUNT
       /\ SmoothedHR(rr) >= HR_MIN /\ SmoothedHR(rr) <= HR_MAX
    THEN SmoothedHR(rr) ELSE before

\* 'if (lastRPeakRef.current !== null) { ... }' for the interval rrInterval:
\* plausibility and ectopic tests, list / heart rate / HRV update
trackInterval(rrInterval) ==
  LET accepted == /\ lastRPeakRef # NoPeak
                  /\ Plausible(rrInterval)
                  /\ AcceptBeat(rrIntervalsRef, rrInterval)
      rr == PushRR(rrIntervalsRef, rrInterval)
  IN /\ rrIntervalsRef' = IF accepted THEN rr ELSE rrIntervalsRef
     /\ heartRate' = IF accepted THEN HeartRateAfter(rr, heartRate) ELSE heartRate
     /\ hrvMetrics' =
          IF accepted /\ Len(rr) >= HRV_MIN_COUNT
            THEN calculateAdvancedHRV(rr, hrvMetrics) ELSE hrvMetrics
     /\ dspOp' = IF accepted THEN "beatAccepted"
                 ELSE IF lastRPeakRef # NoPeak /\ Plausible(rrInterval)
                   THEN "beatRejected"
                 ELSE "peak"

\* the body of 'if (isPeak)': the interval from the last peak is tracked,
\* lastRPeakRef.current = peakTime
registerPeak(peakTime) ==
  /\ trackInterval(peakTime - lastRPeakRef)
  /\ lastRPeakRef' = peakTime
  /\ peakConnect' = connects

\* detectRPeakMultiLead(mvs) at Date.now() = t, leadII = mvs[1] || 0
detectRPeakMultiLead(leadII, t) ==
  IF lastRPeakRef # NoPeak /\ (t - lastRPeakRef) < REFRACTORY_MS
    THEN /\ UNCHANGED << rPeakBufferRef, lastRPeakRef, peakConnect, rrIntervalsRef,
                         heartRate, hrvMetrics >>
         /\ dspOp' = "refractory"
    ELSE LET buf == PushPeakBuffer(rPeakBufferRef, leadII, t)
         IN /\ rPeakBufferRef' = buf
            /\ IF Len(buf) >= PEAK_BUFFER_MIN /\ IsPeak(buf)
                 THEN registerPeak(buf[MidIdx(buf)].time)
                 ELSE /\ UNCHANGED << lastRPeakRef, peakConnect, rrIntervalsRef, heartRate,
                                      hrvMetrics >>
                      /\ dspOp' = "noPeak"

(* ------------------- report analysis (RiskAnalysis.jsx) --------------- *)
NoValue == 0 - 1           \* '--'
SDNN_WARNING == 50         \* if (sdnn < 50) status = 'warning'
SDNN_DANGER == 30          \* if (sdnn < 30) status = 'danger'
PEAKS_MIN == 3             \* if (rPeaks.length < 3)

\* (rPeaks[i] - rPeaks[i - 1]) / sr * 1000, in milliseconds
ReportIntervals(peaks, sr) ==
  [i \in 1..(Len(peaks) - 1) |-> ((peaks[i + 1] - peaks[i]) * 1000) \div sr]

\* sum of (val - mean)^2 / rrIntervals.length, mean = sum / rrIntervals.length
ReportVariance(rr) ==
  LET n == Len(rr)
      sum == SumSeq(rr)
      sq == [i \in 1..n |-> ((n * rr[i] - sum) \div n) * ((n * rr[i] - sum) \div n)]
  IN SumSeq(sq) \div n

\* calculateHRV(rPeaks, sr): sdnn and rmssd rounded to milliseconds
calculateHRV(peaks, sr) ==
  IF Len(peaks) < PEAKS_MIN
    THEN [sdnn |-> NoValue, rmssd |-> NoValue, status |-> "unknown"]
    ELSE LET rr == ReportIntervals(peaks, sr)
             sdnn == RoundSqrt4(4 * ReportVariance(rr))
             rmssd == RoundSqrt4((4 * SumSquaredDiffs(rr)) \div (Len(rr) - 1))
         IN [sdnn |-> sdnn, rmssd |-> rmssd,
             status |-> IF sdnn < SDNN_DANGER THEN "danger"
                        ELSE IF sdnn < SDNN_WARNING THEN "warning"
                        ELSE "normal"]

\* getDefaultMetrics().hrv
DefaultMetrics ==
  [computed |-> FALSE,
   hrv |-> [sdnn |-> NoValue, rmssd |-> NoValue, status |-> "unknown"]]

InitReport == rPeaks = << >> /\ metrics = DefaultMetrics

(* ------------------- risk analysis (RiskAnalysis.jsx) ----------------- *)
HR_WARNING_LOW == 60       \* if (hr < 60) status = 'warning'
HR_WARNING_HIGH == 100     \* else if (hr > 100) status = 'warning'
HR_DANGER_LOW == 50        \* else if (hr < 50 || hr > 120) status = 'danger'
HR_DANGER_HIGH == 120
HR_PEAKS_MIN == 2          \* if (rPeaks.length < 2)
QTC_WARNING == 430         \* if (qtc > 430) status = 'warning'
QTC_DANGER == 450          \* if (qtc > 450) status = 'danger'
RISK_MEDIUM == 3           \* if (score >= 3) level = 'medium'
RISK_HIGH == 6             \* if (score >= 6) level = 'high'
REPORT_SAMPLE_RATE == 125  \* RiskAnalysis({ leadData, sampleRate = 125 })

Statuses == {"unknown", "normal", "warning", "danger"}

\* let status = 'normal'; if (hr < 60) ... else if (hr > 100) ...
\* else if (hr < 50 || hr > 120) ...
HeartRateStatus(hr) ==
  IF hr < HR_WARNING_LOW THEN "warning"
  ELSE IF hr > HR_WARNING_HIGH THEN "warning"
  ELSE IF hr < HR_DANGER_LOW \/ hr > HR_DANGER_HIGH THEN "danger"
  ELSE "normal"

\* calculateHeartRate(rPeaks, sr): the mean of the intervals
\* (rPeaks[i] - rPeaks[i-1]) / sr is (last - first) / (sr * n) seconds;
\* hr = Math.round(60 / avgRR), rrInterval = Math.round(avgRR * 1000)
calculateHeartRate(peaks, sr) ==
  IF Len(peaks) < HR_PEAKS_MIN
    THEN [hr |-> NoValue, status |-> "unknown", rrInterval |-> NoValue]
    ELSE LET n == Len(peaks) - 1
             span == peaks[Len(peaks)] - peaks[1]
             hr == RoundDiv(60 * sr * n, span)
         IN [hr |-> hr, status |-> HeartRateStatus(hr),
             rrInterval |-> RoundDiv(1000 * span, sr * n)]

\* estimateQTInterval(samples, rPeaks, sr, hr): avgRR = 60 / hr,
\* qtc = Math.round(400 * avgRR / Math.sqrt(avgRR)) = round(sqrt(9600000 / hr));
\* qtc > limit  iff  4 * 9600000 >= (2 * limit + 1)^2 * hr
estimateQTInterval(peaks, hr) ==
  IF Len(peaks) < 2 \/ hr = NoValue \/ hr <= 0
    THEN [status |-> "unknown"]
    ELSE LET above(limit) ==
               38400000 >= (2 * limit + 1) * (2 * limit + 1) * hr
         IN [status |-> IF above(QTC_DANGER) THEN "danger"
                        ELSE IF above(QTC_WARNING) THEN "warning"
                        ELSE "normal"]

\* the points and the factor calculateRiskScore adds for one metric
Points(status, dangerPoints) ==
  IF status = "warning" THEN 1 ELSE IF status = "danger" THEN dangerPoints ELSE 0

Factor(status, onWarning, onDanger) ==
  IF status = "warning" THEN << onWarning >>
  ELSE IF status = "danger" THEN << onDanger >> ELSE << >>

\* calculateRiskScore with the ST segment scored like the other metrics
calculateRiskScoreFlat(hr, hrv, qrs, qt, st) ==
  LET score == Points(hr.status, 2) + Points(hrv.status, 2)
                 + Points(qrs.status, 2) + Points(qt.status, 2)
                 + Points(st.status, 2)
  IN [score |-> score,
      level |-> IF score >= RISK_HIGH THEN "high"
                ELSE IF score >= RISK_MEDIUM THEN "medium" ELSE "low",
      factors |-> Factor(hr.status, "HR abnormal", "HR critical")
                    \o Factor(hrv.status, "Low HRV", "Very low HRV")
                    \o Factor(qrs.status, "Wide QRS", "QRS >120ms")
                    \o Factor(qt.status, "Borderline QTc", "Prolonged QTc")
                    \o Factor(st.status, "ST deviation", "Significant ST change")]

\* calculateRiskScore(hr, hrv, qrs, qt, st)
calculateRiskScore(hr, hrv, qrs, qt, st) ==
  LET score == Points(hr.status, 2) + Points(hrv.status, 2)
                 + Points(qrs.status, 2) + Points(qt.status, 2)
                 + Points(st.status, 3)
  IN [score |-> score,
      level |-> IF score >= RISK_HIGH THEN "high"
                ELSE IF score >= RISK_MEDIUM THEN "medium" ELSE "low",
      factors |-> Factor(hr.status, "HR abnormal", "HR critical")
                    \o Factor(hrv.status, "Low HRV", "Very low HRV")
                    \o Factor(qrs.status, "Wide QRS", "QRS >120ms")
                    \o Factor(qt.status, "Borderline QTc", "Prolonged QTc")
                    \o Factor(st.status, "ST deviation", "Significant ST change")]

\* getDefaultMetrics()
getDefaultMetrics ==
  [computed |-> FALSE,
   hr |-> [hr |-> NoValue, status |-> "unknown", rrInterval |-> NoValue],
   hrv |-> [sdnn |-> NoValue, rmssd |-> NoValue, status |-> "unknown"],
   qrs |-> [status |-> "unknown"],
   qt |-> [status |-> "unknown"],
   st |-> [status |-> "unknown"],
   risk |-> [score |-> 0, level |-> "unknown", factors |-> << >>]]

\* the statuses of the five metrics handed to calculateRiskScore
NoStatuses ==
  [called |-> FALSE, hr |-> "unknown", hrv |-> "unknown", qrs |-> "unknown",
   qt |-> "unknown", st |-> "unknown"]

\* what the useMemo of RiskAnalysis works on: whether leadII holds two
\* seconds of samples, the peaks detectRPeaks found, the sample rate, and
\* the statuses estimateQRSDuration and checkSTDeviation arrive at
NoRiskInput ==
  [long |-> FALSE, peaks |-> << >>, sr |-> REPORT_SAMPLE_RATE,
   qrs |-> "unknown", st |-> "unknown"]

\* the metrics of the useMemo
RiskMetrics(in) ==
  IF ~in.long THEN [getDefaultMetrics EXCEPT !.computed = TRUE]
  ELSE LET hrData == calculateHeartRate(in.peaks, in.sr)
           hrvData == calculateHRV(in.peaks, in.sr)
           qrsData == [status |-> in.qrs]
           qtData == estimateQTInterval(in.peaks, hrData.hr)
           stData == [status |-> in.st]
       IN [computed |-> TRUE, hr |-> hrData, hrv |-> hrvData, qrs |-> qrsData,
           qt |-> qtData, st |-> stData,
           risk |-> calculateRiskScore(hrData, hrvData, qrsData, qtData, stData)]

(* --------------- risk analysis: the metrics from samples -------------- *)
PEAK_WINDOW_MS == 100      \* windowSize = Math.floor(sr * 0.1)
PEAK_DISTANCE_MS == 300    \* minPeakDistance = Math.floor(sr * 0.3)
QRS_MIN_MS == 40           \* if (qrsMs > 40 && qrsMs < 200)
QRS_MAX_MS == 200
QRS_WARNING_MS == 100      \* if (avgQRS > 100) status = 'warning'
QRS_DANGER_MS == 120       \* if (avgQRS > 120) status = 'danger'
J_POINT_MS == 60           \* jPointOffset = Math.floor(sr * 0.06)
ST_OFFSET_MS == 80         \* stOffset = Math.floor(sr * 0.08)
BASELINE_END_MS == 50      \* j < peakIdx - Math.floor(sr * 0.05)

\* samples[i], i counted from 0; values in thousandths of a millivolt
At(samples, i) == samples[i + 1]

\* Math.floor(sr * ms / 1000)
SamplesIn(sr, ms) == (sr * ms) \div 1000

\* maxAmp of detectRPeaks: the largest Math.abs(samples[i]), 0 without samples
MaxAmp(samples) ==
  LET amps == {Abs(samples[n]) : n \in 1..Len(samples)} \cup {0}
  IN CHOOSE a \in amps : \A b \in amps : b <= a

\* the indices the loop of detectRPeaks visits at which the sample is above
\* the threshold and larger than every other sample of its window, in
\* increasing order; twice the threshold is given so that maxAmp * 0.5 stays
\* exact
RECURSIVE Ascending(_)
Ascending(set) ==
  IF set = {} THEN << >>
  ELSE LET least == CHOOSE x \in set : \A y \in set : x <= y
       IN << least >> \o Ascending(set \ {least})

LocalMaxima(samples, windowSize, threshold2) ==
  Ascending({i \in windowSize..(Len(samples) - windowSize - 1) :
               /\ 2 * At(samples, i) > threshold2
               /\ \A j \in (i - windowSize)..(i + windowSize) :
                    j # i => At(samples, j) < At(samples, i)})

\* the loop of detectRPeaks over those indices: one is pushed when it lies
\* more than minPeakDistance after the last one pushed
RECURSIVE PeaksFrom(_, _, _)
PeaksFrom(maxima, minPeakDistance, peaks) ==
  IF maxima = << >> THEN peaks
  ELSE LET i == Head(maxima)
           lastPeakIdx ==
             IF peaks = << >> THEN 0 - minPeakDistance ELSE peaks[Len(peaks)]
       IN PeaksFrom(Tail(maxima), minPeakDistance,
                    IF i - lastPeakIdx > minPeakDistance
                      THEN Append(peaks, i) ELSE peaks)

\* detectRPeaks with the threshold at a tenth of the largest amplitude
detectRPeaksLowThreshold(samples, sr) ==
  PeaksFrom(LocalMaxima(samples, SamplesIn(sr, PEAK_WINDOW_MS),
                        (MaxAmp(samples) * 2) \div 10),
            SamplesIn(sr, PEAK_DISTANCE_MS), << >>)

\* detectRPeaks(samples, sr)
detectRPeaks(samples, sr) ==
  PeaksFrom(LocalMaxima(samples, SamplesIn(sr, PEAK_WINDOW_MS), MaxAmp(samples)),
            SamplesIn(sr, PEAK_DISTANCE_MS), << >>)

\* Math.abs(samples[i]) < Math.abs(peakAmp) * threshold, threshold = 0.3
BelowThirty(samples, i, peakIdx) ==
  10 * Abs(At(samples, i)) < 3 * Abs(At(samples, peakIdx))

\* qStart: the first index below the threshold going back from the peak
RECURSIVE QStart(_, _, _, _)
QStart(samples, peakIdx, i, stop) ==
  IF i <= stop THEN peakIdx
  ELSE IF BelowThirty(samples, i, peakIdx) THEN i
  ELSE QStart(samples, peakIdx, i - 1, stop)

\* qEnd: the first index below the threshold going forward from the peak
RECURSIVE QEnd(_, _, _, _)
QEnd(samples, peakIdx, i, stop) ==
  IF i >= stop THEN peakIdx
  ELSE IF BelowThirty(samples, i, peakIdx) THEN i
  ELSE QEnd(samples, peakIdx, i + 1, stop)

\* qEnd - qStart of every peak whose width passes the sanity check
\* qrsMs > 40 && qrsMs < 200, in samples
QrsWidths(samples, peaks, sr) ==
  LET searchWindow == SamplesIn(sr, PEAK_WINDOW_MS)
      width(k) ==
        QEnd(samples, peaks[k], peaks[k],
             Min(Len(samples), peaks[k] + searchWindow))
          - QStart(samples, peaks[k], peaks[k],
                   Max(0, peaks[k] - searchWindow))
  IN SelectSeq([k \in 1..Len(peaks) |-> width(k)],
               LAMBDA d : 1000 * d > QRS_MIN_MS * sr /\ 1000 * d < QRS_MAX_MS * sr)

\* estimateQRSDuration(samples, peaks, sr)
estimateQRSDuration(samples, peaks, sr) ==
  IF Len(peaks) < 1 THEN [status |-> "unknown"]
  ELSE LET qrsWidths == QrsWidths(samples, peaks, sr)
       IN IF qrsWidths = << >> THEN [status |-> "unknown"]
          ELSE LET avgQRS == RoundDiv(1000 * SumSeq(qrsWidths),
                                      sr * Len(qrsWidths))
               IN [status |-> IF avgQRS > QRS_DANGER_MS THEN "danger"
                              ELSE IF avgQRS > QRS_WARNING_MS THEN "warning"
                              ELSE "normal"]

\* sum of samples[j] for j in from..(to - 1)
RECURSIVE SumRange(_, _, _)
SumRange(samples, from, to) ==
  IF from >= to THEN 0 ELSE At(samples, from) + SumRange(samples, from + 1, to)

\* (stValue - baseline) of the beat at peaks[i], times 60 so that the
\* baseline mean over 1..6 samples stays exact; << >> when the beat is not
\* measured
StDeviation60(samples, peaks, sr, i) ==
  LET peakIdx == peaks[i]
      from == Max(0, peakIdx - SamplesIn(sr, PEAK_WINDOW_MS))
      to == peakIdx - SamplesIn(sr, BASELINE_END_MS)
      count == IF to > from THEN to - from ELSE 0
      baseline60 ==
        IF count > 0 THEN (60 * SumRange(samples, from, to)) \div count ELSE 0
      stIdx == peakIdx + SamplesIn(sr, J_POINT_MS) + SamplesIn(sr, ST_OFFSET_MS)
  IN IF stIdx < peaks[i + 1] /\ stIdx < Len(samples)
       THEN << 60 * At(samples, stIdx) - baseline60 >>
       ELSE << >>

RECURSIVE StDeviations60(_, _, _, _)
StDeviations60(samples, peaks, sr, i) ==
  IF i >= Len(peaks) THEN << >>
  ELSE StDeviation60(samples, peaks, sr, i)
         \o StDeviations60(samples, peaks, sr, i + 1)

\* checkSTDeviation(samples, peaks, sr): deviationMm = avgDeviation * 10,
\* above 0.5 mm (50 thousandths of a millivolt) warning, above 1.0 danger
checkSTDeviation(samples, peaks, sr) ==
  IF Len(peaks) < 2 THEN [status |-> "unknown"]
  ELSE LET stDeviations == StDeviations60(samples, peaks, sr, 1)
           total == Abs(SumSeq(stDeviations))
       IN IF stDeviations = << >> THEN [status |-> "unknown"]
          ELSE [status |-> IF total > 60 * 100 * Len(stDeviations) THEN "danger"
                           ELSE IF total > 60 * 50 * Len(stDeviations)
                             THEN "warning"
                           ELSE "normal"]

\* what the useMemo derives from leadData.leadII before it scores
MetricsInput(samples, sr) ==
  LET found == detectRPeaks(samples, sr)
  IN [long |-> Len(samples) >= sr * 2, peaks |-> found, sr |-> sr,
      qrs |-> estimateQRSDuration(samples, found, sr).status,
      st |-> checkSTDeviation(samples, found, sr).status]

(* --------------- ECGMonitorUI, the single-lead monitor ---------------- *)
MAX_SAMPLES == 1500          \* const MAX_SAMPLES = 1500
SAMPLE_PERIOD_MS == 8        \* 1000 / ARDUINO_SAMPLE_RATE
MIN_BEAT_INTERVAL == 300     \* const MIN_BEAT_INTERVAL = 300
DETECTION_MIN_SAMPLES == 50  \* if (n < 50) return
DETECTION_WINDOW == 200      \* samples.slice(Math.max(0, n - 200))
DETECTION_PERIOD_MS == 32    \* Math.max(20, Math.round(SAMPLE_PERIOD_MS * 4))
MAX_BEATS == 50              \* if (beatsRef.current.length > 50)
SIGNAL_THRESHOLD == 600      \* const signalThreshold = 600
SERIAL_REFRACTORY_MS == 250  \* now - lastPeakTimeRef.current > 250
CALIBRATION_MS == 4000       \* setTimeout(..., 4000)
RECORDING_MS == 15000        \* setTimeout(..., 15000)
MountTime == 1000            \* Date.now() when the component mounts

\* arr.push(x), then arr.splice(0, arr.length - cap) when longer than cap
PushCapped(arr, x, cap) ==
  LET pushed == Append(arr, x)
  IN IF Len(pushed) > cap
       THEN SubSeq(pushed, Len(pushed) - cap + 1, Len(pushed)) ELSE pushed

\* the sum of the samples of recent (square = FALSE) or of their squares,
\* value by value
RECURSIVE SumOver(_, _, _)
SumOver(recent, values, square) ==
  IF values = {} THEN 0
  ELSE LET v == CHOOSE x \in values : TRUE
       IN (IF square THEN v * v ELSE v)
              * Cardinality({k \in 1..Len(recent) : recent[k] = v})
            + SumOver(recent, values \ {v}, square)

\* v > thresh, thresh = mean + Math.max(0.25, sd * 0.8) over recent:
\* v - mean > 1/4 and v - mean > 0.8 * sd, cleared of fractions and roots
AboveLegacyThreshold(v, recent) ==
  LET m == Len(recent)
      values == {recent[k] : k \in 1..m}
      sum == SumOver(recent, values, FALSE)
      squares == SumOver(recent, values, TRUE)
      excess == m * v - sum
  IN /\ 4 * excess > m
     /\ 25 * excess * excess > 16 * (m * squares - sum * sum)

\* the indices the loop of the detection tick visits at which the sample is
\* a local maximum above the threshold
LegacyCandidates(samples, from) ==
  LET n == Len(samples)
      recent == SubSeq(samples, Max(0, n - DETECTION_WINDOW) + 1, n)
  IN {i \in Max(1, from)..(n - 2) :
        /\ At(samples, i) > At(samples, i - 1)
        /\ At(samples, i) > At(samples, i + 1)
        /\ AboveLegacyThreshold(At(samples, i), recent)}

\* no read loop; no range of samples
NoReader == [live |-> FALSE, monitoringActive |-> FALSE, sessionComplete |-> FALSE]
NoRange == << 0, 0 >>

InitMonitor ==
  /\ port = FALSE /\ calibrating = FALSE /\ monitoringActive = FALSE
  /\ sessionComplete = FALSE
  /\ serialReader = NoReader /\ sessionTimers = {}
  /\ samplesRef = << >> /\ beatsRef = << >>
  /\ lastPeakTimeRef = 0 /\ lastPeakTime = 0 /\ lastProcessedIndex = 0
  /\ monitorNow = MountTime /\ lastTickAt = MountTime /\ serialLines = 0
  /\ appended = 0 /\ nextUnexamined = 1 /\ passedOver = NoRange
  /\ cycles = 0 /\ firedCycle = 0 /\ monitorOp = "none"

(* -------------------- lead derivation at report time ----------------- *)
NoDerived == [paths |-> {}, leads |-> EmptyLeads]

\* a derivation that leaves out the halving of the other limb lead
ReportDerivationUnhalved(I, II) ==
  LET len == Min(Len(I), Len(II))
  IN [III |-> [k \in 1..len |-> II[k] - I[k]],
      aVR |-> [k \in 1..len |-> 0 - ((I[k] + II[k]) \div 2)],
      aVL |-> [k \in 1..len |-> I[k] - (0 + II[k])],
      aVF |-> [k \in 1..len |-> II[k] - (0 + I[k])]]

\* stopRecording, advancedReport: arr[k] = II[k] - I[k]; la = I[k], ll = II[k],
\* ra = 0.0: avr[k] = ra - (la + ll)/2, avl[k] = la - (ra + ll)/2,
\* avf[k] = ll - (ra + la)/2, over len = Math.min(I.length, II.length)
ReportDerivation(I, II) ==
  LET len == Min(Len(I), Len(II))
  IN [III |-> [k \in 1..len |-> II[k] - I[k]],
      aVR |-> [k \in 1..len |-> 0 - ((I[k] + II[k]) \div 2)],
      aVL |-> [k \in 1..len |-> I[k] - ((0 + II[k]) \div 2)],
      aVF |-> [k \in 1..len |-> II[k] - ((0 + I[k]) \div 2)]]

\* the advancedReport step on normalized whose leads in 'missing' are null:
\* III is derived when it is missing, aVR, aVL and aVF are all derived when
\* one of them is missing, both only when I and II are there
DeriveMissing(leads, missing) ==
  LET ok == 1 \notin missing /\ 2 \notin missing
      d == ReportDerivation(leads[1], leads[2])
  IN [l \in Leads |->
        IF l = 3 /\ 3 \in missing /\ ok THEN d.III
        ELSE IF l \in {4, 5, 6} /\ missing \cap {4, 5, 6} # {} /\ ok
          THEN (IF l = 4 THEN d.aVR ELSE IF l = 5 THEN d.aVL ELSE d.aVF)
        ELSE leads[l]]

(* ----------------------------- line source ---------------------------- *)
\* text is a sequence of characters
Newline == "\n"
Chars == {"a", "b", Newline}

\* text.split('\n'): the segments between newlines, always at least one
RECURSIVE split(_)
split(text) ==
  IF \A i \in 1..Len(text) : text[i] # Newline THEN << text >>
  ELSE LET i == CHOOSE j \in 1..Len(text) :
                  text[j] = Newline /\ \A h \in 1..(j - 1) : text[h] # Newline
       IN << SubSeq(text, 1, i - 1) >> \o split(SubSeq(text, i + 1, Len(text)))

\* a buffer that forgets the partial line
HeldBackNothing(pieces) == << >>

\* textBuffer = lines.pop() || '' / this.container = lines.pop()
HeldBack(pieces) == pieces[Len(pieces)]

\* the segments left in lines after the pop
Complete(pieces) == SubSeq(pieces, 1, Len(pieces) - 1)

(* --------------------------- sample parser ---------------------------- *)
\* A line of text is a sequence of lexemes: blanks (' ', '\r'), words,
\* quoted strings, numbers (text matching -?\d+(?:\.\d+)?, carried as its
\* value in thousandths of a millivolt) and punctuation marks.
Lex(k, s, v) == [k |-> k, s |-> s, v |-> v]
Blank == Lex("blank", " ", 0)
CarriageReturn == Lex("blank", "\\r", 0)
Word(s) == Lex("word", s, 0)
Quoted(s) == Lex("quoted", s, 0)
Num(v) == Lex("num", "", v)
Punct(s) == Lex("punct", s, 0)

NaN == 999999              \* the value parseFloat gives for text without a number
NoSample == << >>          \* arr = null
NoLine == << Lex("none", "", 0) >>

\* line.trim()
RECURSIVE TrimStart(_)
TrimStart(line) ==
  IF line # << >> /\ Head(line).k = "blank" THEN TrimStart(Tail(line)) ELSE line

RECURSIVE TrimEnd(_)
TrimEnd(line) ==
  IF line # << >> /\ line[Len(line)].k = "blank"
    THEN TrimEnd(SubSeq(line, 1, Len(line) - 1)) ELSE line

trim(line) == TrimEnd(TrimStart(line))

\* toLowerCase() of the words the device and its firmware messages use
LowerOf(s) ==
  CASE s = "Calibration" -> "calibration"
    [] s = "CALIBRATED" -> "calibrated"
    [] s = "Recalibrated" -> "recalibrated"
    [] s = "Starting" -> "starting"
    [] s = "Done" -> "done"
    [] OTHER -> s

toLowerCase(line) == [i \in 1..Len(line) |-> [line[i] EXCEPT !.s = LowerOf(@)]]

\* part occurs in the lower-case word w
WordHas(w, part) == w = part \/ << w, part >> \in {<< "recalibrated", "calibrated" >>}

\* lower.includes(phrase), phrase given as its words: one word anywhere in
\* the text, or two words with exactly one space between them
includes(lower, phrase) ==
  IF Len(phrase) = 1
    THEN \E i \in 1..Len(lower) :
           lower[i].k \in {"word", "quoted"} /\ WordHas(lower[i].s, phrase[1])
    ELSE \E i \in 1..(Len(lower) - 2) :
           /\ lower[i].k = "word" /\ lower[i].s = phrase[1]
           /\ lower[i + 1] = Blank
           /\ lower[i + 2].k = "word" /\ lower[i + 2].s = phrase[2]

\* a test for the keywords that wants the whole line to be the keyword
CalibrationDoneWholeLine(lower) ==
  lower \in {<< Word("calibration"), Blank, Word("complete") >>,
             << Word("calibrated") >>,
             << Word("calibration"), Blank, Word("done") >>}

\* lower.includes('calibration complete') || lower.includes('calibrated')
\*   || lower.includes('calibration done')
CalibrationDone(lower) ==
  \/ includes(lower, << "calibration", "complete" >>)
  \/ includes(lower, << "calibrated" >>)
  \/ includes(lower, << "calibration", "done" >>)

\* lower.includes('starting') && lower.includes('calibration')
CalibrationStarting(lower) ==
  includes(lower, << "starting" >>) /\ includes(lower, << "calibration" >>)

\* JSON.parse(line) inside try/catch: an object { "key": value, ... }, an
\* array [ n, ... ] (typeof 'object', no named keys), a number, or null when
\* the text is no JSON
NotJson == [type |-> "null", keys |-> {}, val |-> << >>]
Unblank(line) == SelectSeq(line, LAMBDA x : x.k # "blank")

IsMembers(m) ==
  \/ m = << >>
  \/ /\ Len(m) % 4 = 3
     /\ \A i \in 1..Len(m) :
          CASE i % 4 = 1 -> m[i].k = "quoted"
            [] i % 4 = 2 -> m[i] = Punct(":")
            [] i % 4 = 3 -> m[i].k \in {"num", "quoted"}
            [] OTHER -> m[i] = Punct(",")

IsElements(m) ==
  \/ m = << >>
  \/ /\ Len(m) % 2 = 1
     /\ \A i \in 1..Len(m) :
          IF i % 2 = 1 THEN m[i].k = "num" ELSE m[i] = Punct(",")

JSONparse(line) ==
  LET t == Unblank(line)
      n == Len(t)
      m == SubSeq(t, 2, n - 1)
      keyAt == {i \in 1..Len(m) : i % 4 = 1}
      keys == {m[i].s : i \in keyAt}
      lastAt(k) == CHOOSE i \in keyAt :
                     m[i].s = k /\ \A j \in keyAt : m[j].s = k => j <= i
  IN IF n >= 2 /\ t[1] = Punct("{") /\ t[n] = Punct("}") /\ IsMembers(m)
       THEN [type |-> "object", keys |-> keys,
             val |-> [k \in keys |-> m[lastAt(k) + 2]]]
     ELSE IF n >= 2 /\ t[1] = Punct("[") /\ t[n] = Punct("]") /\ IsElements(m)
       THEN [type |-> "object", keys |-> {}, val |-> << >>]
     ELSE IF n = 1 /\ t[1].k = "num"
       THEN [type |-> "number", keys |-> {}, val |-> << >>]
     ELSE NotJson

\* parseFloat of a JSON value
parseFloat(x) == IF x.k = "num" THEN x.v ELSE NaN

\* digits inside a word or a quoted string, as the regular expression
\* finds them
DigitsIn(s) ==
  CASE s = "lead1" -> << 1000 >>
    [] s = "lead2" -> << 2000 >>
    [] s = "lead3" -> << 3000 >>
    [] s = "ch1" -> << 1000 >>
    [] OTHER -> << >>

\* (line.match(/-?\d+(?:\.\d+)?/g) || []).map(v => parseFloat(v))
RECURSIVE match(_)
match(line) ==
  IF line = << >> THEN << >>
  ELSE (IF Head(line).k = "num" THEN << Head(line).v >>
        ELSE DigitsIn(Head(line).s)) \o match(Tail(line))

LeadKeys == << "lead1", "lead2", "lead3", "avr", "avl", "avf" >>

\* if (parsedJson && typeof parsedJson === 'object') with keys.every(...)
Structured(parsedJson) ==
  IF parsedJson.type = "object" /\ \A i \in Leads : LeadKeys[i] \in parsedJson.keys
    THEN [i \in Leads |-> parseFloat(parsedJson.val[LeadKeys[i]])]
    ELSE NoSample

\* nums.length >= 6: nums.slice(0, 6); nums.length === 2: derived leads
FromTokens(nums) ==
  IF Len(nums) >= 6 THEN SubSeq(nums, 1, 6)
  ELSE IF Len(nums) = 2 THEN DeriveLeads(nums[1], nums[2])
  ELSE NoSample

\* a parser that scans for numeric tokens before it tries JSON
parseLineTokensFirst(line) ==
  IF FromTokens(match(line)) # NoSample THEN FromTokens(match(line))
  ELSE Structured(JSONparse(line))

\* the parse of a trimmed line that is no calibration message: arr
parseLine(line) ==
  IF Structured(JSONparse(line)) # NoSample THEN Structured(JSONparse(line))
  ELSE FromTokens(match(line))

\* valueToMv(v) with inputUnits 'mv'
valueToMv(v) == IF v = NaN THEN 0 ELSE v

\* ---- the lines the device is taken to send ----
RECURSIVE Csv(_)
Csv(vs) ==
  IF vs = << >> THEN << >>
  ELSE IF Len(vs) = 1 THEN << Num(vs[1]) >>
  ELSE << Num(Head(vs)), Punct(",") >> \o Csv(Tail(vs))

SentValues == << 500, 800, 300, 0 - 650, 100, 550, 900 >>
TokenCounts == {0, 1, 2, 5, 6, 7}
Phrases ==
  { << >>,
    << Word("Calibration"), Blank, Word("complete") >>,
    << Word("CALIBRATED") >>,
    << Word("Recalibrated") >>,
    << Word("calibration"), Blank, Word("Done") >>,
    << Word("Starting"), Blank, Word("calibration") >>,
    << Word("complete"), Blank, Word("calibration") >>,
    << Word("ch1") >> }

\* "<phrase> v1,v2,...\r" as Serial.println sends it
TextLines ==
  { p \o (IF p # << >> /\ n > 0 THEN << Blank >> ELSE << >>)
      \o Csv(SubSeq(SentValues, 1, n)) \o << CarriageReturn >> :
    p \in Phrases, n \in TokenCounts }

Member(k, x) == << Quoted(k), Punct(":"), x >>
RECURSIVE Members(_)
Members(ms) ==
  IF ms = << >> THEN << >>
  ELSE IF Len(ms) = 1 THEN Head(ms)
  ELSE Head(ms) \o << Punct(",") >> \o Members(Tail(ms))
Object(ms) == << Punct("{") >> \o Members(ms) \o << Punct("}") >>

SixMembers == [i \in Leads |-> Member(LeadKeys[i], Num(10 * i))]
ObjectLines ==
  { Object(SixMembers),
    Object(<< Member("t", Num(40)) >> \o SixMembers),
    Object([SixMembers EXCEPT ![2] = Member("lead2", Quoted("n/a"))]),
    Object(SubSeq(SixMembers, 1, 5)),
    Object(<< Member("lead1", Num(500)) >>),
    << Punct("["), Num(500), Punct(","), Num(800), Punct("]") >> }

Lines == TextLines \cup ObjectLines

(* ------------------------------- Init --------------------------------- *)
\* state of the capture controller after the first render
InitControl ==
  /\ connected = FALSE /\ isCalibrating = FALSE /\ isRecording = FALSE
  /\ isWaiting = FALSE /\ showReport = FALSE /\ recordedData = NoReport
  /\ sampleRate \in Rates /\ secondsWindow \in Windows
  /\ portRef = FALSE /\ runningRef = FALSE /\ bluetoothRunningRef = FALSE
  /\ readerAlive = "none"
  /\ loopEnv = [isCalibrating |-> FALSE, isRecording |-> FALSE,
                filterOn |-> TRUE]
  /\ calibTimeout = NoTimer /\ orphanTimeouts = {}
  /\ bufferRef = NewBuffers(sampleRate, secondsWindow) /\ writeIndexRef = 0
  /\ recordRef = NoRecord
  /\ autoStopTriggeredRef = FALSE /\ manualStopRef = FALSE
  /\ freezeDisplayRef = FALSE /\ frozenBufferRef = NoFrozen
  /\ waitElapsed = NoTimer /\ autoTimer = NoTimer
  /\ seq = 0 /\ connects = 0
  /\ lastOp = "other" /\ calibAge = 0 /\ calibByConnect = FALSE
  /\ sinceStop = WaitTicks /\ settleAge = 0
  /\ autoStopsInSession = 0 /\ stopsInSession = 0 /\ reportBy = "none"
  /\ dspOp = "none"

\* the filter after the mount effects: coefficients of the initial rate,
\* zero state
InitFilter ==
  /\ sampleRateRef = sampleRate
  /\ hpAlphaRef = HpAlpha(sampleRate) /\ lpAlphaRef = LpAlpha(sampleRate)
  /\ hpStateRef = ZeroHp /\ lpStateRef = ZeroLp
  /\ stateRates = {}
  /\ filterOn = TRUE

InitDetector ==
  /\ now = 0 /\ spikes = 0
  /\ rPeakBufferRef = << >> /\ lastRPeakRef = NoPeak /\ peakConnect = 0
  /\ rrIntervalsRef = << >> /\ heartRate = 0 /\ hrvMetrics = NoHrv

\* no line read yet
InitParser == lineIn = NoLine /\ arrOut = NoSample

\* let textBuffer = '' / this.container = '', nothing arrived
InitSource ==
  /\ stream = << >> /\ textBuffer = << >> /\ linesOut = << >>
  /\ consumed = << >> /\ sourceKind = "loop" /\ sourceClosed = FALSE

\* nothing derived
InitDerived == derivIn = [I |-> << >>, II |-> << >>] /\ derived = NoDerived

InitLink == linkOp = "none"

\* no recording analysed
InitRiskIdle ==
  /\ riskIn = NoRiskInput /\ riskOut = getDefaultMetrics
  /\ scoreIn = NoStatuses /\ scoreOut = getDefaultMetrics.risk
  /\ leadData = << >> /\ riskRuns = 0

InitIo == InitParser /\ InitSource /\ InitDerived /\ InitLink /\ InitMonitor /\ InitRiskIdle

Init == InitControl /\ InitFilter /\ InitDetector /\ InitReport /\ InitIo

(* ----------------------- connect / disconnect ------------------------- *)
\* a reset that keeps the time of the last peak
resetHrvTrackingKeepsLastPeak ==
  /\ rrIntervalsRef' = << >> /\ UNCHANGED lastRPeakRef
  /\ rPeakBufferRef' = << >> /\ heartRate' = 0 /\ hrvMetrics' = NoHrv

\* 'Reset HRV tracking on new connection': rrIntervalsRef, lastRPeakRef,
\* rPeakBufferRef, setHeartRate(0), setHrvMetrics({ sdnn: 0, ... })
resetHrvTracking ==
  /\ rrIntervalsRef' = << >> /\ lastRPeakRef' = NoPeak
  /\ rPeakBufferRef' = << >> /\ heartRate' = 0 /\ hrvMetrics' = NoHrv

\* connect() over Web Serial, connectBluetooth(mac) over the HC-05 link:
\* the read loop / line callback created here keeps this render's state
connect(m, maxConnects) ==
  /\ ~connected
  /\ connects < maxConnects
  /\ connects' = connects + 1
  /\ connected' = TRUE
  /\ IF m = "serial"
       THEN /\ portRef' = TRUE /\ runningRef' = TRUE
            /\ UNCHANGED bluetoothRunningRef
       ELSE /\ bluetoothRunningRef' = TRUE
            /\ UNCHANGED << portRef, runningRef >>
  /\ readerAlive' = m
  /\ loopEnv' = [isCalibrating |-> isCalibrating, isRecording |-> isRecording,
                 filterOn |-> filterOn]
  /\ isCalibrating' = TRUE
  /\ calibTimeout' = CalibTicks
  /\ orphanTimeouts' =
       orphanTimeouts \cup (IF calibTimeout = NoTimer THEN {} ELSE {calibTimeout})
  /\ UNCHANGED << isRecording, isWaiting, showReport, recordedData, sampleRate,
                  secondsWindow, bufferRef, writeIndexRef, recordRef,
                  autoStopTriggeredRef, manualStopRef, freezeDisplayRef,
                  frozenBufferRef, seq >>
  /\ resetHrvTracking
  /\ linkOp' = "connect"
  /\ UNCHANGED << filterVars, now, spikes, peakConnect, reportVars, dataVars,
                  dspOp >>
  /\ Effects(autoTimer, waitElapsed)
  /\ Observe("connect", "none", FALSE)

\* a disconnect that leaves the reader of the link in place
disconnectLeavesReader ==
  /\ connected' = FALSE
  /\ isRecording' = FALSE
  /\ portRef' = FALSE
  /\ linkOp' = IF linkOp \in {"disconnect", "disconnectAgain"}
                 THEN "disconnectAgain" ELSE "disconnect"
  /\ UNCHANGED << runningRef, bluetoothRunningRef, readerAlive >>
  /\ UNCHANGED << isCalibrating, isWaiting, showReport, recordedData, sampleRate,
                  secondsWindow, loopEnv, calibTimeout, orphanTimeouts,
                  bufferRef, writeIndexRef, recordRef, autoStopTriggeredRef,
                  manualStopRef, freezeDisplayRef, frozenBufferRef, seq,
                  connects >>
  /\ UNCHANGED << filterVars, detVars, reportVars, dataVars, dspOp >>
  /\ Effects(autoTimer, waitElapsed)
  /\ Observe("disconnect", "none", FALSE)

\* the body of disconnect(): both running flags off, setConnected(false),
\* setIsRecording(false), reader cancelled, port closed, Bluetooth
\* unsubscribed
stopLink ==
  /\ runningRef' = FALSE
  /\ bluetoothRunningRef' = FALSE
  /\ connected' = FALSE
  /\ isRecording' = FALSE
  /\ readerAlive' = "none"
  /\ portRef' = FALSE
  /\ linkOp' = IF linkOp \in {"disconnect", "disconnectAgain"}
                 THEN "disconnectAgain" ELSE "disconnect"
  /\ UNCHANGED << isCalibrating, isWaiting, showReport, recordedData, sampleRate,
                  secondsWindow, loopEnv, calibTimeout, orphanTimeouts,
                  bufferRef, writeIndexRef, recordRef, autoStopTriggeredRef,
                  manualStopRef, freezeDisplayRef, frozenBufferRef, seq,
                  connects >>
  /\ UNCHANGED << filterVars, detVars, reportVars, dataVars, dspOp >>
  /\ Effects(autoTimer, waitElapsed)
  /\ Observe("disconnect", "none", FALSE)

\* the Disconnect button, rendered while connected
disconnect ==
  /\ connected
  /\ stopLink

\* disconnect() called once more when the link is already closed
disconnectAgain ==
  /\ ~connected
  /\ stopLink

\* reader.read() rejects: the catch block of connect
transportError ==
  /\ readerAlive = "serial"
  /\ readerAlive' = "none"
  /\ connected' = FALSE
  /\ UNCHANGED << isCalibrating, isRecording, isWaiting, showReport,
                  recordedData, sampleRate, secondsWindow, portRef, runningRef,
                  bluetoothRunningRef, loopEnv, calibTimeout, orphanTimeouts,
                  bufferRef, writeIndexRef, recordRef, autoStopTriggeredRef,
                  manualStopRef, freezeDisplayRef, frozenBufferRef, seq,
                  connects >>
  /\ linkOp' = "error"
  /\ UNCHANGED << filterVars, detVars, reportVars, dataVars, dspOp >>
  /\ Effects(autoTimer, waitElapsed)
  /\ Observe("transportError", "none", FALSE)

(* ----------------------------- line input ----------------------------- *)
\* while(runningRef.current) / if (!bluetoothRunningRef.current) return
ReaderLive ==
  \/ readerAlive = "serial" /\ runningRef
  \/ readerAlive = "bluetooth" /\ bluetoothRunningRef

\* 'calibration complete' | 'calibrated' | 'calibration done'
lineCalibrationComplete ==
  /\ ReaderLive
  /\ isCalibrating' = FALSE
  /\ calibTimeout' = NoTimer
  /\ UNCHANGED << connected, isRecording, isWaiting, showReport, recordedData,
                  sampleRate, secondsWindow, portRef, runningRef,
                  bluetoothRunningRef, readerAlive, loopEnv, orphanTimeouts,
                  bufferRef, writeIndexRef, recordRef, autoStopTriggeredRef,
                  manualStopRef, freezeDisplayRef, frozenBufferRef, seq,
                  connects >>
  /\ UNCHANGED << filterVars, detVars, reportVars, ioVars, dspOp >>
  /\ Effects(autoTimer, waitElapsed)
  /\ Observe("calibrationComplete", "none", FALSE)

\* 'starting' && 'calibration'
lineStartingCalibration ==
  /\ ReaderLive
  /\ isCalibrating' = TRUE
  /\ UNCHANGED << connected, isRecording, isWaiting, showReport, recordedData,
                  sampleRate, secondsWindow, portRef, runningRef,
                  bluetoothRunningRef, readerAlive, loopEnv, calibTimeout,
                  orphanTimeouts, bufferRef, writeIndexRef, recordRef,
                  autoStopTriggeredRef, manualStopRef, freezeDisplayRef,
                  frozenBufferRef, seq, connects >>
  /\ UNCHANGED << filterVars, detVars, reportVars, ioVars, dspOp >>
  /\ Effects(autoTimer, waitElapsed)
  /\ Observe("startingCalibration", "none", FALSE)

\* a recording gate that does not look at the active flag
RecordGateNoActive(rec) == rec.hasData

\* if (recordRef.current.active && recordRef.current.data)
RecordGate(rec) == rec.active /\ rec.hasData

\* if (duration >= CAPTURE_SECONDS && !autoStopTriggeredRef.current)
ShouldAutoStop(elapsedTicks, triggered) ==
  elapsedTicks >= CaptureTicks /\ ~triggered

\* if (isCalibrating) continue  -- isCalibrating of the loop's closure
CalibrationGate(env) == env.isCalibrating

RingWrite(bufs, idx, mvs) ==
  [l \in Leads |-> [bufs[l] EXCEPT ![idx + 1] = mvs[l]]]

\* a drop that moves the write cursor on
dropLineSkippingSlot ==
  /\ UNCHANGED << StopVars, autoStopTriggeredRef, bufferRef >>
  /\ writeIndexRef' = (writeIndexRef + 1) % Len(bufferRef[1])
  /\ UNCHANGED << filterVars, rPeakBufferRef, lastRPeakRef, peakConnect,
                  rrIntervalsRef, heartRate, hrvMetrics, spikes, dspOp >>

\* continue: the line leaves the capture, the ring buffers, the filter and
\* the beat detector as they are
dropLine ==
  /\ UNCHANGED << StopVars, autoStopTriggeredRef, bufferRef, writeIndexRef >>
  /\ UNCHANGED << filterVars, rPeakBufferRef, lastRPeakRef, peakConnect,
                  rrIntervalsRef, heartRate, hrvMetrics, spikes, dspOp >>

\* an append that reaches the limb leads only
AppendSampleLimbLeads(data, mvs) ==
  [l \in Leads |-> IF l <= 3 THEN Append(data[l], mvs[l]) ELSE data[l]]

\* leads.forEach((ln, idx) => recordRef.current.data[ln].push(mvs[idx]))
AppendSample(data, mvs) ==
  [l \in Leads |-> Append(data[l], mvs[l])]

\* the recording append with the auto-stop test and the ring-buffer write
\* of a sample that passed the calibration gate
storeSample(mvs) ==
  LET gate == RecordGate(recordRef)
      rec1 == IF gate
                THEN [recordRef EXCEPT
                        !.data = AppendSample(@, mvs),
                        !.count = @ + 1]
                ELSE recordRef
      fire == gate /\ ShouldAutoStop(rec1.elapsed, autoStopTriggeredRef)
      samples == Len(bufferRef[1])
  IN /\ autoStopTriggeredRef' = (autoStopTriggeredRef \/ fire)
     /\ IF fire
          THEN stopRecording(TRUE, loopEnv.isRecording, rec1)
          ELSE /\ recordRef' = rec1
               /\ UNCHANGED << isRecording, recordedData,
                               frozenBufferRef, freezeDisplayRef,
                               manualStopRef, isWaiting >>
     /\ bufferRef' = RingWrite(bufferRef, writeIndexRef, mvs)
     /\ writeIndexRef' = (writeIndexRef + 1) % samples
     /\ Effects(autoTimer, waitElapsed)
     /\ Observe("sample", IF fire THEN "auto" ELSE "none", FALSE)

\* a line that parses to a lead vector: calibration gate, recording append
\* with the auto-stop test, ring-buffer write
lineSample(maxSeq) ==
  /\ ReaderLive
  /\ seq < maxSeq
  /\ seq' = seq + 1
  /\ UNCHANGED << connected, isCalibrating, showReport, sampleRate,
                  secondsWindow, portRef, runningRef, bluetoothRunningRef,
                  readerAlive, loopEnv, calibTimeout, orphanTimeouts, connects >>
  /\ UNCHANGED << filterVars, detVars, reportVars, ioVars, dspOp >>
  /\ IF CalibrationGate(loopEnv)
       THEN /\ UNCHANGED << StopVars, autoStopTriggeredRef, bufferRef,
                            writeIndexRef >>
            /\ Effects(autoTimer, waitElapsed)
            /\ Observe("sampleDiscarded", "none", FALSE)
       ELSE storeSample(LineValues(seq + 1))

\* mvs[i] = filterSample(i, mvs[i]) for the six leads: the values returned
Filtered(xs) ==
  [l \in Leads |->
     LpOut(lpAlphaRef, lpStateRef[l], HpOut(hpAlphaRef, hpStateRef[l], xs[l]))]

\* ... and the filter state left behind
filterSamples(xs) ==
  /\ hpStateRef' = [l \in Leads |-> HpAfter(hpAlphaRef, hpStateRef[l], xs[l])]
  /\ lpStateRef' =
       [l \in Leads |->
          LpAfter(lpAlphaRef, lpStateRef[l],
                  HpOut(hpAlphaRef, hpStateRef[l], xs[l]))]
  /\ stateRates' = stateRates \cup {sampleRateRef}

\* if(filterOn), as the read loop sees it
FilterGate(env) == env.filterOn

\* the 'convert and filter' step of a sample line that passed the
\* calibration gate: if(filterOn) mvs[i] = filterSample(i, mvs[i]) for the
\* six leads, filterOn being the one of the render that started the loop
filterLine(maxSeq) ==
  /\ ReaderLive
  /\ ~CalibrationGate(loopEnv)
  /\ seq < maxSeq
  /\ seq' = seq + 1
  /\ IF FilterGate(loopEnv)
       THEN /\ filterSamples([l \in Leads |-> FixedOne * LineValues(seq + 1)[l]])
            /\ dspOp' = "filter"
       ELSE /\ UNCHANGED << hpStateRef, lpStateRef, stateRates >>
            /\ dspOp' = "convert"
  /\ UNCHANGED << connected, isCalibrating, isRecording, isWaiting, showReport,
                  recordedData, sampleRate, secondsWindow, portRef, runningRef,
                  bluetoothRunningRef, readerAlive, loopEnv, calibTimeout,
                  orphanTimeouts, bufferRef, writeIndexRef, recordRef,
                  autoStopTriggeredRef, manualStopRef, freezeDisplayRef,
                  frozenBufferRef, connects >>
  /\ UNCHANGED << sampleRateRef, hpAlphaRef, lpAlphaRef, detVars, reportVars, ioVars >>
  /\ Effects(autoTimer, waitElapsed)
  /\ Observe("filter", "none", FALSE)

\* lead II values of the sample lines the detector is given, in thousandths
\* of a millivolt: baseline, an upward and a downward deflection
Signals == {0 - 2000, 0, 2000}
\* milliseconds between two sample lines (a device sending 20 lines a second)
SamplePeriodMs == 50

\* the 'R-peak detection' step of a sample line that passed the
\* calibration gate: detectRPeakMultiLead(mvs) at the time the line is read
detectLine(leadII, maxSeq, maxSpikes) ==
  /\ ReaderLive
  /\ ~CalibrationGate(loopEnv)
  /\ seq < maxSeq
  /\ leadII # 0 => spikes < maxSpikes
  /\ seq' = seq + 1
  /\ spikes' = IF leadII # 0 THEN spikes + 1 ELSE spikes
  /\ now' = now + SamplePeriodMs
  /\ detectRPeakMultiLead(leadII, now')
  /\ UNCHANGED << connected, isCalibrating, isRecording, isWaiting, showReport,
                  recordedData, sampleRate, secondsWindow, portRef, runningRef,
                  bluetoothRunningRef, readerAlive, loopEnv, calibTimeout,
                  orphanTimeouts, bufferRef, writeIndexRef, recordRef,
                  autoStopTriggeredRef, manualStopRef, freezeDisplayRef,
                  frozenBufferRef, connects >>
  /\ UNCHANGED << filterVars, reportVars, ioVars >>
  /\ Effects(autoTimer, waitElapsed)
  /\ Observe("detect", "none", FALSE)

\* one line of the read loop (serial) or of the line callback (Bluetooth):
\* trim, calibration messages, parse, calibration gate, convert and filter,
\* beat detection, recording, ring-buffer write
readLine(line, maxLines) ==
  /\ ReaderLive
  /\ seq < maxLines
  /\ seq' = seq + 1
  /\ now' = now + SamplePeriodMs
  /\ lineIn' = line
  /\ UNCHANGED << connected, showReport, sampleRate, secondsWindow, portRef,
                  runningRef, bluetoothRunningRef, readerAlive, loopEnv,
                  orphanTimeouts, connects, reportVars, sourceVars,
                  deriveVars, linkVars, riskVars, monitorVars, settingVars >>
  /\ LET t == trim(line)
         lower == toLowerCase(t)
         arr == parseLine(t)
         mvs == [l \in Leads |-> valueToMv(arr[l])]
     IN IF t = << >>
          THEN /\ arrOut' = NoSample
               /\ UNCHANGED << isCalibrating, calibTimeout >>
               /\ dropLine
               /\ Effects(autoTimer, waitElapsed)
               /\ Observe("lineDropped", "none", FALSE)
        ELSE IF CalibrationDone(lower)
          THEN /\ arrOut' = NoSample
               /\ isCalibrating' = FALSE
               /\ calibTimeout' = NoTimer
               /\ dropLine
               /\ Effects(autoTimer, waitElapsed)
               /\ Observe("calibrationComplete", "none", FALSE)
        ELSE IF CalibrationStarting(lower)
          THEN /\ arrOut' = NoSample
               /\ isCalibrating' = TRUE
               /\ UNCHANGED calibTimeout
               /\ dropLine
               /\ Effects(autoTimer, waitElapsed)
               /\ Observe("startingCalibration", "none", FALSE)
        ELSE IF arr = NoSample
          THEN /\ arrOut' = NoSample
               /\ UNCHANGED << isCalibrating, calibTimeout >>
               /\ dropLine
               /\ Effects(autoTimer, waitElapsed)
               /\ Observe("lineDropped", "none", FALSE)
        ELSE IF CalibrationGate(loopEnv)
          THEN /\ arrOut' = arr
               /\ UNCHANGED << isCalibrating, calibTimeout >>
               /\ dropLine
               /\ Effects(autoTimer, waitElapsed)
               /\ Observe("sampleDiscarded", "none", FALSE)
        ELSE /\ arrOut' = arr
             /\ UNCHANGED << isCalibrating, calibTimeout, sampleRateRef,
                             hpAlphaRef, lpAlphaRef, spikes >>
             /\ IF FilterGate(loopEnv)
                  THEN /\ filterSamples(mvs)
                       /\ detectRPeakMultiLead(Filtered(mvs)[2], now')
                       /\ storeSample(Filtered(mvs))
                  ELSE /\ UNCHANGED << hpStateRef, lpStateRef, stateRates >>
                       /\ detectRPeakMultiLead(mvs[2], now')
                       /\ storeSample(mvs)

\* reader.read() resolves with the next k characters of the stream /
\* transform(chunk, controller)
readChunk(k) ==
  /\ ~sourceClosed
  /\ k \in 1..Len(stream)
  /\ LET chunk == SubSeq(stream, 1, k)
         pieces == split(textBuffer \o chunk)
     IN /\ textBuffer' = HeldBack(pieces)
        /\ linesOut' = linesOut \o Complete(pieces)
        /\ consumed' = consumed \o chunk
  /\ stream' = SubSeq(stream, k + 1, Len(stream))
  /\ UNCHANGED << sourceKind, sourceClosed >>
  /\ UNCHANGED << connected, isCalibrating, isRecording, isWaiting, showReport,
                  recordedData, sampleRate, secondsWindow, portRef, runningRef,
                  bluetoothRunningRef, readerAlive, loopEnv, calibTimeout,
                  orphanTimeouts, bufferRef, writeIndexRef, recordRef,
                  autoStopTriggeredRef, manualStopRef, freezeDisplayRef,
                  frozenBufferRef, seq, connects >>
  /\ UNCHANGED << filterVars, detVars, reportVars, parserVars, deriveVars,
                  linkVars, riskVars, monitorVars, settingVars, dspOp >>
  /\ Effects(autoTimer, waitElapsed)
  /\ Observe("chunk", "none", FALSE)

\* the stream ends: if (done) break in the read loop, flush(controller) in
\* LineBreakTransformer
endOfStream ==
  /\ ~sourceClosed
  /\ stream = << >>
  /\ sourceClosed' = TRUE
  /\ linesOut' = IF sourceKind = "transformer" /\ textBuffer # << >>
                   THEN Append(linesOut, textBuffer) ELSE linesOut
  /\ UNCHANGED << stream, textBuffer, consumed, sourceKind >>
  /\ UNCHANGED << connected, isCalibrating, isRecording, isWaiting, showReport,
                  recordedData, sampleRate, secondsWindow, portRef, runningRef,
                  bluetoothRunningRef, readerAlive, loopEnv, calibTimeout,
                  orphanTimeouts, bufferRef, writeIndexRef, recordRef,
                  autoStopTriggeredRef, manualStopRef, freezeDisplayRef,
                  frozenBufferRef, seq, connects >>
  /\ UNCHANGED << filterVars, detVars, reportVars, parserVars, deriveVars,
                  linkVars, riskVars, monitorVars, settingVars, dspOp >>
  /\ Effects(autoTimer, waitElapsed)
  /\ Observe("endOfStream", "none", FALSE)

\* the live path: every pair (I[k], II[k]) arrives as a 2-value line and
\* is parsed to six leads, which are collected lead by lead
liveDerive ==
  /\ "live" \notin derived.paths
  /\ derived' =
       [paths |-> {"live"},
        leads |-> [l \in Leads |->
                     [k \in 1..Len(derivIn.I) |->
                        FromTokens(<< derivIn.I[k], derivIn.II[k] >>)[l]]]]
  /\ UNCHANGED derivIn
  /\ UNCHANGED << connected, isCalibrating, isRecording, isWaiting, showReport,
                  recordedData, sampleRate, secondsWindow, portRef, runningRef,
                  bluetoothRunningRef, readerAlive, loopEnv, calibTimeout,
                  orphanTimeouts, bufferRef, writeIndexRef, recordRef,
                  autoStopTriggeredRef, manualStopRef, freezeDisplayRef,
                  frozenBufferRef, seq, connects >>
  /\ UNCHANGED << filterVars, detVars, reportVars, parserVars, sourceVars,
                  linkVars, riskVars, monitorVars, settingVars, dspOp >>
  /\ Effects(autoTimer, waitElapsed)
  /\ Observe("derive", "none", FALSE)

\* the report path: normalized holds I and II, and the derived leads of the
\* live path except those in 'missing' (all four when nothing was derived
\* live); the advancedReport step fills them in
reportDerive(missing) ==
  /\ missing # {}
  /\ derived.paths = {} => missing = {3, 4, 5, 6}
  /\ derived' =
       [paths |-> derived.paths \cup {"report"},
        leads |->
          DeriveMissing(
            [l \in Leads |->
               IF l = 1 THEN derivIn.I ELSE IF l = 2 THEN derivIn.II
               ELSE derived.leads[l]],
            missing)]
  /\ UNCHANGED derivIn
  /\ UNCHANGED << connected, isCalibrating, isRecording, isWaiting, showReport,
                  recordedData, sampleRate, secondsWindow, portRef, runningRef,
                  bluetoothRunningRef, readerAlive, loopEnv, calibTimeout,
                  orphanTimeouts, bufferRef, writeIndexRef, recordRef,
                  autoStopTriggeredRef, manualStopRef, freezeDisplayRef,
                  frozenBufferRef, seq, connects >>
  /\ UNCHANGED << filterVars, detVars, reportVars, parserVars, sourceVars,
                  linkVars, riskVars, monitorVars, settingVars, dspOp >>
  /\ Effects(autoTimer, waitElapsed)
  /\ Observe("derive", "none", FALSE)

\* the useMemo of RiskAnalysis runs over the lead data it is given
analyseRisk ==
  /\ ~riskOut.computed
  /\ riskOut' = RiskMetrics(riskIn)
  /\ UNCHANGED << riskIn, scoreIn, scoreOut, leadData, riskRuns >>
  /\ UNCHANGED << connected, isCalibrating, isRecording, isWaiting, showReport,
                  recordedData, sampleRate, secondsWindow, portRef, runningRef,
                  bluetoothRunningRef, readerAlive, loopEnv, calibTimeout,
                  orphanTimeouts, bufferRef, writeIndexRef, recordRef,
                  autoStopTriggeredRef, manualStopRef, freezeDisplayRef,
                  frozenBufferRef, seq, connects >>
  /\ UNCHANGED << filterVars, detVars, reportVars, parserVars, sourceVars,
                  deriveVars, linkVars, monitorVars, settingVars, dspOp >>
  /\ Effects(autoTimer, waitElapsed)
  /\ Observe("risk", "none", FALSE)

\* the useMemo of RiskAnalysis runs over leadData.leadII; it runs again
\* whenever the component is given the recording anew
analyseLead ==
  /\ leadData # << >>
  /\ riskRuns < MaxRiskRuns
  /\ riskRuns' = riskRuns + 1
  /\ riskIn' = MetricsInput(leadData, REPORT_SAMPLE_RATE)
  /\ riskOut' = IF riskIn'.long THEN RiskMetrics(riskIn')
                ELSE [getDefaultMetrics EXCEPT !.computed = TRUE]
  /\ UNCHANGED << leadData, scoreIn, scoreOut >>
  /\ UNCHANGED << connected, isCalibrating, isRecording, isWaiting, showReport,
                  recordedData, sampleRate, secondsWindow, portRef, runningRef,
                  bluetoothRunningRef, readerAlive, loopEnv, calibTimeout,
                  orphanTimeouts, bufferRef, writeIndexRef, recordRef,
                  autoStopTriggeredRef, manualStopRef, freezeDisplayRef,
                  frozenBufferRef, seq, connects >>
  /\ UNCHANGED << filterVars, detVars, reportVars, parserVars, sourceVars,
                  deriveVars, linkVars, monitorVars, settingVars, dspOp >>
  /\ Effects(autoTimer, waitElapsed)
  /\ Observe("risk", "none", FALSE)

\* calculateRiskScore(hrData, hrvData, qrsData, qtData, stData)
scoreRisk ==
  /\ ~scoreIn.called
  /\ scoreIn' = [scoreIn EXCEPT !.called = TRUE]
  /\ scoreOut' = calculateRiskScore([status |-> scoreIn.hr],
                                    [status |-> scoreIn.hrv],
                                    [status |-> scoreIn.qrs],
                                    [status |-> scoreIn.qt],
                                    [status |-> scoreIn.st])
  /\ UNCHANGED << riskIn, riskOut, leadData, riskRuns >>
  /\ UNCHANGED << connected, isCalibrating, isRecording, isWaiting, showReport,
                  recordedData, sampleRate, secondsWindow, portRef, runningRef,
                  bluetoothRunningRef, readerAlive, loopEnv, calibTimeout,
                  orphanTimeouts, bufferRef, writeIndexRef, recordRef,
                  autoStopTriggeredRef, manualStopRef, freezeDisplayRef,
                  frozenBufferRef, seq, connects >>
  /\ UNCHANGED << filterVars, detVars, reportVars, parserVars, sourceVars,
                  deriveVars, linkVars, monitorVars, settingVars, dspOp >>
  /\ Effects(autoTimer, waitElapsed)
  /\ Observe("score", "none", FALSE)

(* ----------------------- ECGMonitorUI handlers ----------------------- *)
\* what a handler of ECGMonitorUI leaves alone in the six-lead visualizer
MonitorFrame ==
  /\ UNCHANGED << connected, isCalibrating, isRecording, isWaiting, showReport,
                  recordedData, sampleRate, secondsWindow, portRef, runningRef,
                  bluetoothRunningRef, readerAlive, loopEnv, calibTimeout,
                  orphanTimeouts, bufferRef, writeIndexRef, recordRef,
                  autoStopTriggeredRef, manualStopRef, freezeDisplayRef,
                  frozenBufferRef, seq, connects >>
  /\ UNCHANGED << filterVars, detVars, reportVars, parserVars, sourceVars,
                  deriveVars, linkVars, riskVars, settingVars, dspOp >>
  /\ Effects(autoTimer, waitElapsed)
  /\ Observe("monitor", "none", FALSE)

\* connectSerial(), the port granted and opened: the state is set, the
\* calibration timeout armed, and the read loop starts with the
\* monitoringActive and sessionComplete of the render the click came from.
\* The button is rendered while port is null.
connectSerial(maxCycles) ==
  /\ ~port
  /\ cycles < maxCycles
  /\ port' = TRUE
  /\ calibrating' = TRUE
  /\ monitoringActive' = FALSE
  /\ cycles' = cycles + 1
  /\ sessionTimers' = sessionTimers \cup
       {[kind |-> "calibration", due |-> monitorNow + CALIBRATION_MS,
         cycle |-> cycles + 1]}
  /\ serialReader' = [live |-> TRUE, monitoringActive |-> monitoringActive,
                      sessionComplete |-> sessionComplete]
  /\ monitorOp' = "connect"
  /\ UNCHANGED << sessionComplete, samplesRef, beatsRef, lastPeakTimeRef,
                  lastPeakTime, lastProcessedIndex, monitorNow, lastTickAt,
                  serialLines, appended, nextUnexamined, passedOver, firedCycle >>
  /\ MonitorFrame

\* disconnectSerial(); port.close() rejects while the reader holds the
\* stream, in which case the read loop goes on, and ends the loop otherwise
disconnectSerial ==
  /\ port
  /\ port' = FALSE
  /\ calibrating' = FALSE
  /\ monitoringActive' = FALSE
  /\ sessionComplete' = FALSE
  /\ samplesRef' = << >>
  /\ beatsRef' = << >>
  /\ \/ serialReader' = serialReader
     \/ serialReader' = [serialReader EXCEPT !.live = FALSE]
  /\ appended' = 0 /\ nextUnexamined' = 1
  /\ monitorOp' = "disconnect"
  /\ UNCHANGED << sessionTimers, lastPeakTimeRef, lastPeakTime,
                  lastProcessedIndex, monitorNow, lastTickAt, serialLines,
                  passedOver, cycles, firedCycle >>
  /\ MonitorFrame

\* resetSession(), 'Test Again', rendered while port && sessionComplete
resetSession(maxCycles) ==
  /\ port /\ sessionComplete
  /\ cycles < maxCycles
  /\ sessionComplete' = FALSE
  /\ calibrating' = TRUE
  /\ monitoringActive' = FALSE
  /\ samplesRef' = << >>
  /\ beatsRef' = << >>
  /\ cycles' = cycles + 1
  /\ sessionTimers' = sessionTimers \cup
       {[kind |-> "calibration", due |-> monitorNow + CALIBRATION_MS,
         cycle |-> cycles + 1]}
  /\ appended' = 0 /\ nextUnexamined' = 1
  /\ monitorOp' = "reset"
  /\ UNCHANGED << port, serialReader, lastPeakTimeRef, lastPeakTime,
                  lastProcessedIndex, monitorNow, lastTickAt, serialLines,
                  passedOver, firedCycle >>
  /\ MonitorFrame

\* the 4 s timeout of connectSerial / resetSession fires
calibrationTimeout ==
  \E t \in sessionTimers :
    /\ t.kind = "calibration" /\ t.due <= monitorNow
    /\ calibrating' = FALSE
    /\ monitoringActive' = TRUE
    /\ sessionTimers' = (sessionTimers \ {t}) \cup
         {[kind |-> "recording", due |-> monitorNow + RECORDING_MS,
           cycle |-> t.cycle]}
    /\ firedCycle' = t.cycle
    /\ monitorOp' = "calibrationTimeout"
    /\ UNCHANGED << port, sessionComplete, serialReader, samplesRef, beatsRef,
                    lastPeakTimeRef, lastPeakTime, lastProcessedIndex,
                    monitorNow, lastTickAt, serialLines, appended,
                    nextUnexamined, passedOver, cycles >>
    /\ MonitorFrame

\* the 15 s timeout armed by the 4 s one fires (the averages and the health
\* score it computes are display state)
recordingTimeout ==
  \E t \in sessionTimers :
    /\ t.kind = "recording" /\ t.due <= monitorNow
    /\ sessionComplete' = TRUE
    /\ monitoringActive' = FALSE
    /\ sessionTimers' = sessionTimers \ {t}
    /\ firedCycle' = t.cycle
    /\ monitorOp' = "recordingTimeout"
    /\ UNCHANGED << port, calibrating, serialReader, samplesRef, beatsRef,
                    lastPeakTimeRef, lastPeakTime, lastProcessedIndex,
                    monitorNow, lastTickAt, serialLines, appended,
                    nextUnexamined, passedOver, cycles >>
    /\ MonitorFrame

\* ms pass in which nothing runs; a timeout that is due runs first
timePasses(ms, maxNow) ==
  /\ monitorNow + ms <= maxNow
  /\ \A t \in sessionTimers : t.due > monitorNow
  /\ monitorNow' = monitorNow + ms
  /\ monitorOp' = "time"
  /\ UNCHANGED << port, calibrating, monitoringActive, sessionComplete,
                  serialReader, sessionTimers, samplesRef, beatsRef,
                  lastPeakTimeRef, lastPeakTime, lastProcessedIndex, lastTickAt,
                  serialLines, appended, nextUnexamined, passedOver, cycles,
                  firedCycle >>
  /\ MonitorFrame

\* the beat list after the read loop handled the sample line
\* "val1,val2[,bpm]" at time t (bpm 0: no third field, or 0 in it)
BeatsAfterLine(line, t) ==
  LET reported == IF line.bpm > 0 THEN PushCapped(beatsRef, t, MAX_BEATS)
                  ELSE beatsRef
      peak == /\ line.bpm > 0
              /\ serialReader.monitoringActive /\ ~serialReader.sessionComplete
              /\ line.val1 > SIGNAL_THRESHOLD
              /\ t - lastPeakTimeRef > SERIAL_REFRACTORY_MS
  IN [beats |-> IF peak THEN Append(reported, t) ELSE reported,
      lastPeak |-> IF peak THEN t ELSE lastPeakTimeRef]

\* one pass of the read loop over a sample line, read ms after the line
\* before it
serialLine(line, ms, maxLines) ==
  /\ serialReader.live
  /\ serialLines < maxLines
  /\ serialLines' = serialLines + 1
  /\ monitorNow' = monitorNow + ms
  /\ samplesRef' = PushCapped(samplesRef, line.val2, MAX_SAMPLES)
  /\ beatsRef' = BeatsAfterLine(line, monitorNow').beats
  /\ lastPeakTimeRef' = BeatsAfterLine(line, monitorNow').lastPeak
  /\ appended' = appended + 1
  /\ monitorOp' = "line"
  /\ UNCHANGED << port, calibrating, monitoringActive, sessionComplete,
                  serialReader, sessionTimers, lastPeakTime, lastProcessedIndex,
                  lastTickAt, nextUnexamined, passedOver, cycles, firedCycle >>
  /\ MonitorFrame

\* one pass of the read loop over a line announcing 'Calibration Complete'
serialCalibrationComplete(maxLines) ==
  /\ serialReader.live
  /\ serialLines < maxLines
  /\ serialLines' = serialLines + 1
  /\ calibrating' = FALSE
  /\ monitorOp' = "keyword"
  /\ UNCHANGED << port, monitoringActive, sessionComplete, serialReader,
                  sessionTimers, samplesRef, beatsRef, lastPeakTimeRef,
                  lastPeakTime, lastProcessedIndex, monitorNow, lastTickAt,
                  appended, nextUnexamined, passedOver, cycles, firedCycle >>
  /\ MonitorFrame

\* the callback of the detection interval. Every candidate of one tick reads
\* the same Date.now(), so only the first can pass the refractory test.
\* Observation, with the samples numbered from 1 in the order they were
\* appended: this tick examines first..last, the next one starts at last; a
\* sample from expected on that lies before both is passed over for good
\* (the first sample of a buffer has no predecessor and is not counted).
detectionTick ==
  /\ monitorNow - lastTickAt >= DETECTION_PERIOD_MS
  /\ lastTickAt' = monitorNow
  /\ LET n == Len(samplesRef)
         scanned == n >= DETECTION_MIN_SAMPLES
         beat == /\ scanned
                 /\ LegacyCandidates(samplesRef, lastProcessedIndex) # {}
                 /\ monitorNow - lastPeakTime > MIN_BEAT_INTERVAL
         base == appended - n
         first == base + Max(1, lastProcessedIndex) + 1
         last == base + n - 1
         expected == Max(nextUnexamined, IF base = 0 THEN 2 ELSE 1)
     IN /\ lastPeakTime' = IF beat THEN monitorNow ELSE lastPeakTime
        /\ beatsRef' = IF beat THEN PushCapped(beatsRef, monitorNow, MAX_BEATS)
                       ELSE beatsRef
        /\ lastProcessedIndex' =
             IF scanned THEN Max(0, n - 2) ELSE lastProcessedIndex
        /\ passedOver' = IF scanned /\ Min(first, last) > expected
                           THEN << expected, Min(first, last) - 1 >>
                           ELSE passedOver
        /\ nextUnexamined' =
             IF scanned
               THEN Max(nextUnexamined, IF first <= last THEN last + 1 ELSE last)
               ELSE nextUnexamined
  /\ monitorOp' = "tick"
  /\ UNCHANGED << port, calibrating, monitoringActive, sessionComplete,
                  serialReader, sessionTimers, samplesRef, lastPeakTimeRef,
                  monitorNow, serialLines, appended, cycles, firedCycle >>
  /\ MonitorFrame

\* milliseconds between a registered peak and the next sample found to be
\* a peak: below the refractory time, at and around the plausibility
\* limits and the 30% limits of the starting rhythms
Gaps == {300, 333, 400, 520, 521, 1000, 1500, 1501}

\* a call of detectRPeakMultiLead in which isPeak holds for a mid sample
\* taken gap ms after the last registered peak
peakAt(gap, maxBeats) ==
  /\ seq < maxBeats
  /\ seq' = seq + 1
  /\ now' = IF lastRPeakRef = NoPeak THEN now + gap ELSE lastRPeakRef + gap
  /\ registerPeak(now')
  /\ UNCHANGED << connected, isCalibrating, isRecording, isWaiting, showReport,
                  recordedData, sampleRate, secondsWindow, portRef, runningRef,
                  bluetoothRunningRef, readerAlive, loopEnv, calibTimeout,
                  orphanTimeouts, bufferRef, writeIndexRef, recordRef,
                  autoStopTriggeredRef, manualStopRef, freezeDisplayRef,
                  frozenBufferRef, connects >>
  /\ UNCHANGED << filterVars, rPeakBufferRef, spikes, reportVars, ioVars >>
  /\ Effects(autoTimer, waitElapsed)
  /\ Observe("peak", "none", FALSE)

\* a peak registered gap ms after the last one in an endless run of peaks
\* that keeps the rhythm it takes up.  Only differences of times enter the
\* detector, so the times are written on a clock whose zero is the peak
\* before the last one: lastRPeakRef then holds the last interval (0 for a
\* first peak), and seq tells odd peaks from even ones.
rhythmPeak(gap) ==
  /\ lastRPeakRef \in {NoPeak, 0} \/ gap = lastRPeakRef
  /\ seq' = 1 - seq
  /\ trackInterval((lastRPeakRef + gap) - lastRPeakRef)
  /\ lastRPeakRef' = IF lastRPeakRef = NoPeak THEN 0 ELSE gap
  /\ now' = lastRPeakRef'
  /\ peakConnect' = connects
  /\ UNCHANGED << connected, isCalibrating, isRecording, isWaiting, showReport,
                  recordedData, sampleRate, secondsWindow, portRef, runningRef,
                  bluetoothRunningRef, readerAlive, loopEnv, calibTimeout,
                  orphanTimeouts, bufferRef, writeIndexRef, recordRef,
                  autoStopTriggeredRef, manualStopRef, freezeDisplayRef,
                  frozenBufferRef, connects >>
  /\ UNCHANGED << filterVars, rPeakBufferRef, spikes, reportVars, ioVars >>
  /\ Effects(autoTimer, waitElapsed)
  /\ Observe("peak", "none", FALSE)

\* calculateAdvancedHRV() over the intervals held
analyseTrack ==
  /\ dspOp # "hrv"
  /\ hrvMetrics' = calculateAdvancedHRV(rrIntervalsRef, hrvMetrics)
  /\ dspOp' = "hrv"
  /\ UNCHANGED << connected, isCalibrating, isRecording, isWaiting, showReport,
                  recordedData, sampleRate, secondsWindow, portRef, runningRef,
                  bluetoothRunningRef, readerAlive, loopEnv, calibTimeout,
                  orphanTimeouts, bufferRef, writeIndexRef, recordRef,
                  autoStopTriggeredRef, manualStopRef, freezeDisplayRef,
                  frozenBufferRef, seq, connects >>
  /\ UNCHANGED << filterVars, now, rPeakBufferRef, lastRPeakRef, peakConnect,
                  rrIntervalsRef, heartRate, spikes, reportVars, ioVars >>
  /\ Effects(autoTimer, waitElapsed)
  /\ Observe("hrv", "none", FALSE)

\* RiskAnalysis useMemo: hrv: calculateHRV(rPeaks, sampleRate)
analyseReport ==
  /\ ~metrics.computed
  /\ metrics' = [computed |-> TRUE, hrv |-> calculateHRV(rPeaks, sampleRate)]
  /\ UNCHANGED << connected, isCalibrating, isRecording, isWaiting, showReport,
                  recordedData, sampleRate, secondsWindow, portRef, runningRef,
                  bluetoothRunningRef, readerAlive, loopEnv, calibTimeout,
                  orphanTimeouts, bufferRef, writeIndexRef, recordRef,
                  autoStopTriggeredRef, manualStopRef, freezeDisplayRef,
                  frozenBufferRef, seq, connects >>
  /\ UNCHANGED << filterVars, detVars, rPeaks, dspOp, ioVars >>
  /\ Effects(autoTimer, waitElapsed)
  /\ Observe("report", "none", FALSE)

(* ------------------------------ buttons ------------------------------- *)
\* 'Start Recording' is rendered when connected && !isRecording && !isCalibrating
clickStartRecording ==
  /\ connected /\ ~isRecording /\ ~isCalibrating
  /\ startRecording(connected)
  /\ showReport' = ShowReportAfterStart(connected, showReport)
  /\ UNCHANGED << connected, isCalibrating, isWaiting, recordedData, sampleRate,
                  secondsWindow, portRef, runningRef, bluetoothRunningRef,
                  readerAlive, loopEnv, calibTimeout, orphanTimeouts, bufferRef,
                  writeIndexRef, seq, connects >>
  /\ UNCHANGED << filterVars, detVars, reportVars, ioVars, dspOp >>
  /\ Effects(autoTimer, waitElapsed)
  /\ Observe("userStart", "none", StartAllowed(connected))

\* 'Stop Recording' is rendered when isRecording: stopRecording()
clickStopRecording ==
  /\ isRecording
  /\ stopRecording(FALSE, isRecording, recordRef)
  /\ UNCHANGED << connected, isCalibrating, showReport, sampleRate,
                  secondsWindow, portRef, runningRef, bluetoothRunningRef,
                  readerAlive, loopEnv, calibTimeout, orphanTimeouts, bufferRef,
                  writeIndexRef, autoStopTriggeredRef, seq, connects >>
  /\ UNCHANGED << filterVars, detVars, reportVars, ioVars, dspOp >>
  /\ Effects(autoTimer, waitElapsed)
  /\ Observe("userStop",
             IF StopIgnored(FALSE, isRecording, recordRef) THEN "none" ELSE "manual",
             FALSE)

\* 'View Report' is rendered when recordedData && !isWaiting
clickViewReport ==
  /\ recordedData.present /\ ~isWaiting
  /\ ~showReport
  /\ showReport' = TRUE
  /\ UNCHANGED << connected, isCalibrating, isRecording, isWaiting, recordedData,
                  sampleRate, secondsWindow, portRef, runningRef,
                  bluetoothRunningRef, readerAlive, loopEnv, calibTimeout,
                  orphanTimeouts, bufferRef, writeIndexRef, recordRef,
                  autoStopTriggeredRef, manualStopRef, freezeDisplayRef,
                  frozenBufferRef, seq, connects >>
  /\ UNCHANGED << filterVars, detVars, reportVars, ioVars, dspOp >>
  /\ Effects(autoTimer, waitElapsed)
  /\ Observe("viewReport", "none", FALSE)

\* 'Close' of the report modal
clickCloseReport ==
  /\ showReport
  /\ showReport' = FALSE
  /\ UNCHANGED << connected, isCalibrating, isRecording, isWaiting, recordedData,
                  sampleRate, secondsWindow, portRef, runningRef,
                  bluetoothRunningRef, readerAlive, loopEnv, calibTimeout,
                  orphanTimeouts, bufferRef, writeIndexRef, recordRef,
                  autoStopTriggeredRef, manualStopRef, freezeDisplayRef,
                  frozenBufferRef, seq, connects >>
  /\ UNCHANGED << filterVars, detVars, reportVars, ioVars, dspOp >>
  /\ Effects(autoTimer, waitElapsed)
  /\ Observe("closeReport", "none", FALSE)

\* 'New Recording' of the report modal:
\* setShowReport(false); if (connected && !isCalibrating)
\*   { setRecordedData(null); startRecording() }
clickNewRecording ==
  /\ showReport
  /\ showReport' = FALSE
  /\ IF connected /\ ~isCalibrating
       THEN /\ recordedData' = NoReport
            /\ startRecording(connected)
       ELSE UNCHANGED << recordedData, StartVars >>
  /\ UNCHANGED << connected, isCalibrating, isWaiting, sampleRate,
                  secondsWindow, portRef, runningRef, bluetoothRunningRef,
                  readerAlive, loopEnv, calibTimeout, orphanTimeouts, bufferRef,
                  writeIndexRef, seq, connects >>
  /\ UNCHANGED << filterVars, detVars, reportVars, ioVars, dspOp >>
  /\ Effects(autoTimer, waitElapsed)
  /\ Observe("userStart", "none",
             connected /\ ~isCalibrating /\ StartAllowed(connected))

(* ------------------------------ settings ------------------------------ *)
RateInputs == {0 - 1, 1, 2}        \* numbers typed into the sample-rate input
WindowInputs == {0 - 1, 0, 1, 2}   \* numbers typed into the window input

\* Math.max(1, parseInt(e.target.value) || DEFAULT_SAMPLE_RATE)
SampleRateOfInput(v) == Max(1, IF v = 0 THEN DEFAULT_SAMPLE_RATE ELSE v)
\* parseInt(e.target.value) || 1
WindowOfInput(v) == IF v = 0 THEN 1 ELSE v

\* useEffect on [secondsWindow, sampleRate]: new zero-filled buffers
BufferInitEffect ==
  /\ bufferRef' = NewBuffers(sampleRate', secondsWindow')
  /\ writeIndexRef' = 0

\* an effect that recomputes the coefficients and keeps the filter state
FilterCoefficientEffectNoReset ==
  /\ hpAlphaRef' = HpAlpha(sampleRateRef')
  /\ lpAlphaRef' = LpAlpha(sampleRateRef')
  /\ UNCHANGED << hpStateRef, lpStateRef, stateRates >>

\* useEffect on [sampleRate]: coefficients of the new rate, state reset
FilterCoefficientEffect ==
  /\ hpAlphaRef' = HpAlpha(sampleRateRef')
  /\ lpAlphaRef' = LpAlpha(sampleRateRef')
  /\ hpStateRef' = ZeroHp
  /\ lpStateRef' = ZeroLp
  /\ stateRates' = {}

\* the 'Bandpass' checkbox: onChange={e=>setFilterOn(e.target.checked)}
setFilterOn(v) ==
  /\ v # filterOn
  /\ filterOn' = v
  /\ dspOp' = "bandpass"
  /\ UNCHANGED << connected, isCalibrating, isRecording, isWaiting, showReport,
                  recordedData, sampleRate, secondsWindow, portRef, runningRef,
                  bluetoothRunningRef, readerAlive, loopEnv, calibTimeout,
                  orphanTimeouts, bufferRef, writeIndexRef, recordRef,
                  autoStopTriggeredRef, manualStopRef, freezeDisplayRef,
                  frozenBufferRef, seq, connects >>
  /\ UNCHANGED << filterVars, detVars, reportVars, parserVars, sourceVars,
                  deriveVars, linkVars, riskVars, monitorVars >>
  /\ Effects(autoTimer, waitElapsed)
  /\ Observe("bandpass", "none", FALSE)

\* sample-rate input changed to a new rate; the effects on [sampleRate]:
\* buffers recreated, sampleRateRef, filter coefficients and state
setSampleRate(v) ==
  /\ SampleRateOfInput(v) # sampleRate
  /\ sampleRate' = SampleRateOfInput(v)
  /\ UNCHANGED << connected, isCalibrating, isRecording, isWaiting, showReport,
                  recordedData, secondsWindow, portRef, runningRef,
                  bluetoothRunningRef, readerAlive, loopEnv, calibTimeout,
                  orphanTimeouts, recordRef, autoStopTriggeredRef,
                  manualStopRef, freezeDisplayRef, frozenBufferRef, seq,
                  connects >>
  /\ BufferInitEffect
  /\ sampleRateRef' = sampleRate'
  /\ FilterCoefficientEffect
  /\ dspOp' = "rate"
  /\ UNCHANGED << detVars, reportVars, ioVars >>
  /\ Effects(autoTimer, waitElapsed)
  /\ Observe("setSampleRate", "none", FALSE)

\* window input changed to a new length; the effect on
\* [secondsWindow, sampleRate]: buffers recreated
setSecondsWindow(v) ==
  /\ WindowOfInput(v) # secondsWindow
  /\ secondsWindow' = WindowOfInput(v)
  /\ UNCHANGED << connected, isCalibrating, isRecording, isWaiting, showReport,
                  recordedData, sampleRate, portRef, runningRef,
                  bluetoothRunningRef, readerAlive, loopEnv, calibTimeout,
                  orphanTimeouts, recordRef, autoStopTriggeredRef,
                  manualStopRef, freezeDisplayRef, frozenBufferRef, seq,
                  connects >>
  /\ BufferInitEffect
  /\ dspOp' = "window"
  /\ UNCHANGED << filterVars, detVars, reportVars, ioVars >>
  /\ Effects(autoTimer, waitElapsed)
  /\ Observe("setSecondsWindow", "none", FALSE)

(* ------------------------------- timers ------------------------------- *)
\* setTimeout(()=>{ setIsCalibrating(false) }, 5000) of the live connection
calibTimeoutFire ==
  /\ calibTimeout = 0
  /\ calibTimeout' = NoTimer
  /\ isCalibrating' = FALSE
  /\ UNCHANGED << connected, isRecording, isWaiting, showReport, recordedData,
                  sampleRate, secondsWindow, portRef, runningRef,
                  bluetoothRunningRef, readerAlive, loopEnv, orphanTimeouts,
                  bufferRef, writeIndexRef, recordRef, autoStopTriggeredRef,
                  manualStopRef, freezeDisplayRef, frozenBufferRef, seq,
                  connects >>
  /\ UNCHANGED << filterVars, detVars, reportVars, ioVars, dspOp >>
  /\ Effects(autoTimer, waitElapsed)
  /\ Observe("calibTimeout", "none", FALSE)

\* the same timer of an earlier connect call, which nothing clears
orphanTimeoutFire ==
  /\ 0 \in orphanTimeouts
  /\ orphanTimeouts' = orphanTimeouts \ {0}
  /\ isCalibrating' = FALSE
  /\ UNCHANGED << connected, isRecording, isWaiting, showReport, recordedData,
                  sampleRate, secondsWindow, portRef, runningRef,
                  bluetoothRunningRef, readerAlive, loopEnv, calibTimeout,
                  bufferRef, writeIndexRef, recordRef, autoStopTriggeredRef,
                  manualStopRef, freezeDisplayRef, frozenBufferRef, seq,
                  connects >>
  /\ UNCHANGED << filterVars, detVars, reportVars, ioVars, dspOp >>
  /\ Effects(autoTimer, waitElapsed)
  /\ Observe("calibTimeout", "none", FALSE)

\* the 500 ms timer of the auto-start effect: startRecording() of the render
\* that armed it, in which connected was true
autoStartFire ==
  /\ autoTimer = 0
  /\ startRecording(TRUE)
  /\ showReport' = ShowReportAfterStart(TRUE, showReport)
  /\ UNCHANGED << connected, isCalibrating, isWaiting, recordedData, sampleRate,
                  secondsWindow, portRef, runningRef, bluetoothRunningRef,
                  readerAlive, loopEnv, calibTimeout, orphanTimeouts, bufferRef,
                  writeIndexRef, seq, connects >>
  /\ UNCHANGED << filterVars, detVars, reportVars, ioVars, dspOp >>
  /\ Effects(NoTimer, waitElapsed)
  /\ Observe("autoStart", "none", StartAllowed(TRUE))

\* the interval callback in which elapsed >= WAIT_SECONDS first holds:
\* clearInterval, setIsWaiting(false)
waitExpire ==
  /\ waitElapsed >= WaitTicks
  /\ isWaiting' = FALSE
  /\ UNCHANGED << connected, isCalibrating, isRecording, showReport,
                  recordedData, sampleRate, secondsWindow, portRef, runningRef,
                  bluetoothRunningRef, readerAlive, loopEnv, calibTimeout,
                  orphanTimeouts, bufferRef, writeIndexRef, recordRef,
                  autoStopTriggeredRef, manualStopRef, freezeDisplayRef,
                  frozenBufferRef, seq, connects >>
  /\ UNCHANGED << filterVars, detVars, reportVars, ioVars, dspOp >>
  /\ Effects(autoTimer, NoTimer)
  /\ Observe("waitExpire", "none", FALSE)

TimerDue ==
  \/ calibTimeout = 0
  \/ 0 \in orphanTimeouts
  \/ autoTimer = 0
  \/ waitElapsed >= WaitTicks

Dec(t) == IF t > 0 THEN t - 1 ELSE t

\* one tick passes: Date.now() moves on, pending timers come closer
Tick ==
  /\ ~TimerDue
  /\ calibTimeout' = Dec(calibTimeout)
  /\ orphanTimeouts' = { Dec(t) : t \in orphanTimeouts }
  /\ recordRef' = IF recordRef.hasData
                    THEN [recordRef EXCEPT !.elapsed = Min(@ + 1, CaptureTicks)]
                    ELSE recordRef
  /\ UNCHANGED << connected, isCalibrating, isRecording, isWaiting, showReport,
                  recordedData, sampleRate, secondsWindow, portRef, runningRef,
                  bluetoothRunningRef, readerAlive, loopEnv, bufferRef,
                  writeIndexRef, autoStopTriggeredRef, manualStopRef,
                  freezeDisplayRef, frozenBufferRef, seq, connects >>
  /\ UNCHANGED << filterVars, detVars, reportVars, ioVars, dspOp >>
  /\ Effects(Dec(autoTimer),
             IF waitElapsed >= 0 THEN waitElapsed + 1 ELSE waitElapsed)
  /\ Observe("tick", "none", FALSE)

(* ---------------------------- specification --------------------------- *)
Next ==
  \/ \E m \in {"serial", "bluetooth"} : connect(m, MaxConnects)
  \/ disconnect
  \/ transportError
  \/ lineCalibrationComplete
  \/ lineStartingCalibration
  \/ lineSample(MaxSamples)
  \/ clickStartRecording
  \/ clickStopRecording
  \/ clickViewReport
  \/ clickCloseReport
  \/ clickNewRecording
  \/ calibTimeoutFire
  \/ orphanTimeoutFire
  \/ autoStartFire
  \/ waitExpire
  \/ Tick

Spec == Init /\ [][Next]_vars

\* one serial connection and a long sample stream: the runs in which a
\* capture fills up
NextCapture ==
  \/ connect("serial", 1)
  \/ lineSample(MaxCaptureSamples)
  \/ clickStartRecording
  \/ clickStopRecording
  \/ calibTimeoutFire
  \/ autoStartFire
  \/ waitExpire
  \/ Tick

SpecCapture == Init /\ [][NextCapture]_vars

\* one serial connection with the sample-rate and window inputs in use:
\* the runs in which the ring buffers are recreated and the display frozen
NextDisplay ==
  \/ connect("serial", 1)
  \/ lineSample(MaxDisplaySamples)
  \/ clickStartRecording
  \/ clickStopRecording
  \/ \E v \in RateInputs : setSampleRate(v)
  \/ \E v \in WindowInputs : setSecondsWindow(v)
  \/ calibTimeoutFire
  \/ autoStartFire
  \/ waitExpire
  \/ Tick

SpecDisplay == Init /\ [][NextDisplay]_vars

\* the filter under sample-rate and window changes
NextFilter ==
  \/ connect("serial", 1)
  \/ filterLine(MaxFilterSamples)
  \/ \E v \in RateInputs : setSampleRate(v)
  \/ \E v \in WindowInputs : setSecondsWindow(v)

SpecFilter == Init /\ [][NextFilter]_vars

\* the filter with the 'Bandpass' checkbox in use
NextSettings ==
  \/ connect("serial", 1)
  \/ filterLine(MaxFilterSamples)
  \/ \E v \in BOOLEAN : setFilterOn(v)

SpecSettings == Init /\ [][NextSettings]_vars

\* the beat detector fed sample by sample over one connection
NextDetector ==
  \/ connect("serial", 1)
  \/ \E leadII \in Signals : detectLine(leadII, MaxDetSamples, MaxSpikes)

SpecDetector == Init /\ [][NextDetector]_vars

\* the beat track under a run of registered peaks, started from no beat at
\* all or from a steady rhythm already tracked
StartRRs == {400, 1000}     \* the steady rhythms, in ms
StartLens == {0, 2, RR_KEEP - 1, RR_KEEP}
SteadyList(n, v) == [i \in 1..n |-> v]

InitBeats ==
  /\ InitControl /\ InitFilter /\ InitReport /\ InitIo
  /\ now = 0 /\ spikes = 0 /\ rPeakBufferRef = << >>
  /\ \E n \in StartLens, v \in StartRRs :
       /\ rrIntervalsRef = SteadyList(n, v)
       /\ lastRPeakRef = IF n = 0 THEN NoPeak ELSE 0
       /\ peakConnect = 0
       /\ heartRate = HeartRateAfter(SteadyList(n, v), 0)
       /\ hrvMetrics = IF n >= HRV_MIN_COUNT
                         THEN calculateAdvancedHRV(SteadyList(n, v), NoHrv)
                         ELSE NoHrv

NextBeats == \E gap \in Gaps : peakAt(gap, MaxBeats)

SpecBeats == InitBeats /\ [][NextBeats]_vars

\* the beat track under an endless run of peaks: a steady rhythm already
\* tracked (or none), then the rhythm the heart takes up and keeps.  The
\* device streams for as long as it is connected, so peaks keep coming.
RhythmRRs == {333, 400, 700, 1000, 1300, 1500}
NextRhythm == \E gap \in RhythmRRs : rhythmPeak(gap)

\* a peak is registered: every step of NextRhythm is one, and one is always
\* possible
peakArrives == seq' = 1 - seq

SpecRhythm == InitBeats /\ [][NextRhythm]_vars /\ WF_seq(peakArrives)

\* the two HRV computations applied to steady and to nearly steady inputs
HrvRRs == {333, 800, 1500}   \* interval lengths, in ms
HrvSteps == {0, 20, 60}      \* by how much the last interval is longer
PeakSpacings == {1, 2, 3}    \* samples between detected peaks
PeakSteps == {0, 1}          \* by how much the last spacing is longer

HrvLists ==
  { Append(SteadyList(n - 1, v), v + d) :
      n \in 1..MaxHrvLen, v \in HrvRRs, d \in HrvSteps }

PeakLists ==
  { [i \in 1..n |-> i * k + (IF i = n THEN d ELSE 0)] :
      n \in 1..MaxHrvLen, k \in PeakSpacings, d \in PeakSteps }

InitHRV ==
  /\ InitControl /\ InitFilter /\ InitIo
  /\ now = 0 /\ spikes = 0 /\ rPeakBufferRef = << >> /\ lastRPeakRef = 0
  /\ peakConnect = 0
  /\ rrIntervalsRef \in HrvLists
  /\ heartRate = HeartRateAfter(rrIntervalsRef, 0)
  /\ hrvMetrics = NoHrv
  /\ rPeaks \in PeakLists
  /\ metrics = DefaultMetrics

NextHRV ==
  \/ analyseTrack
  \/ analyseReport

SpecHRV == InitHRV /\ [][NextHRV]_vars

\* the read loop line by line, from the text of a line to the buffers
NextParser ==
  \/ \E m \in {"serial", "bluetooth"} : connect(m, 1)
  \/ \E line \in Lines : readLine(line, MaxLines)
  \/ clickStartRecording

SpecParser == Init /\ [][NextParser]_vars

\* the character streams a device sends, up to MaxStreamLen characters
RECURSIVE Texts(_)
Texts(n) ==
  IF n = 0 THEN {<< >>}
  ELSE Texts(n - 1) \cup {Append(t, c) : t \in Texts(n - 1), c \in Chars}

\* the line source alone: a stream arrives in chunks of any size
InitLines ==
  /\ InitControl /\ InitFilter /\ InitDetector /\ InitReport /\ InitParser
  /\ InitDerived /\ InitLink /\ InitMonitor /\ InitRiskIdle
  /\ stream \in Texts(MaxStreamLen)
  /\ sourceKind \in {"loop", "transformer"}
  /\ textBuffer = << >> /\ linesOut = << >> /\ consumed = << >>
  /\ sourceClosed = FALSE

NextLines ==
  \/ \E k \in 1..MaxStreamLen : readChunk(k)
  \/ endOfStream

SpecLines == InitLines /\ [][NextLines]_vars

\* values of I and II in thousandths of a millivolt; even, so that the
\* halves of the formulas are whole
DeriveValues == {0 - 800, 0 - 2, 0, 500, 800}

RECURSIVE Arrays(_)
Arrays(n) ==
  IF n = 0 THEN {<< >>}
  ELSE {<< >>} \cup {<< v >> \o a : v \in DeriveValues, a \in Arrays(n - 1)}

\* the lead derivation alone, on arrays of up to MaxDeriveLen samples
InitDerive ==
  /\ InitControl /\ InitFilter /\ InitDetector /\ InitReport /\ InitParser
  /\ InitSource /\ InitLink /\ InitMonitor /\ InitRiskIdle
  /\ derivIn \in {[I |-> q[1], II |-> q[2]] :
                    q \in {r \in Arrays(MaxDeriveLen) \X Arrays(MaxDeriveLen) :
                             r[1] # << >> /\ Len(r[1]) = Len(r[2])}}
  /\ derived = NoDerived

NextDerive ==
  \/ liveDerive
  \/ \E missing \in SUBSET {3, 4, 5, 6} : reportDerive(missing)

SpecDerive == InitDerive /\ [][NextDerive]_vars

\* peak spacings of the rhythms followed across connections
ReconnectGaps == {400, 1000}

\* a peak found in a line of the open link
beatWhileReading(gap) == ReaderLive /\ peakAt(gap, MaxBeats)

\* the beat track across connections: a device is connected over either
\* link, peaks are registered while its lines are read, the link is closed
\* or fails, and a device is connected again
NextReconnect ==
  \/ \E m \in {"serial", "bluetooth"} : connect(m, MaxConnects)
  \/ disconnect
  \/ transportError
  \/ \E gap \in ReconnectGaps : beatWhileReading(gap)

SpecReconnect == Init /\ [][NextReconnect]_vars

\* the lines a device sends in SpecLink: a calibration message, a 2-value
\* sample line, a line that is neither
LinkLines ==
  { << Word("CALIBRATED"), CarriageReturn >>,
    Csv(<< 500, 800 >>) \o << CarriageReturn >>,
    Csv(<< 500 >>) \o << CarriageReturn >> }

\* links opened and closed while lines arrive and recordings are started
NextLink ==
  \/ \E m \in {"serial", "bluetooth"} : connect(m, MaxConnects)
  \/ disconnect
  \/ disconnectAgain
  \/ transportError
  \/ \E line \in LinkLines : readLine(line, MaxLinkLines)
  \/ clickStartRecording

SpecLink == Init /\ [][NextLink]_vars

\* samples between two detected peaks at 125 Hz: 150, 121, 119, 100, 60,
\* 50, 49.7 and 30 beats a minute when evenly spaced; the first peak is at
\* sample 13
RiskSpacings == {50, 62, 63, 75, 125, 150, 151, 250}

RECURSIVE RiskPeaks(_)
RiskPeaks(n) ==
  IF n = 0 THEN {<< >>}
  ELSE IF n = 1 THEN {<< >>, << 13 >>}
  ELSE RiskPeaks(n - 1)
         \cup {Append(p, p[Len(p)] + d) :
                 p \in {q \in RiskPeaks(n - 1) : Len(q) = n - 1}, d \in RiskSpacings}

\* the risk analysis alone, over recordings with up to MaxRiskPeaks peaks
InitRisk ==
  /\ InitControl /\ InitFilter /\ InitDetector /\ InitReport /\ InitParser
  /\ InitSource /\ InitDerived /\ InitLink /\ InitMonitor
  /\ riskIn \in {[long |-> TRUE, peaks |-> p, sr |-> REPORT_SAMPLE_RATE,
                  qrs |-> q, st |-> t] :
                   p \in RiskPeaks(MaxRiskPeaks), q \in Statuses, t \in Statuses}
                 \cup {NoRiskInput}
  /\ Len(riskIn.peaks) < 1 => riskIn.qrs = "unknown"
  /\ Len(riskIn.peaks) < 2 => riskIn.st = "unknown"
  /\ riskOut = getDefaultMetrics
  /\ scoreIn = NoStatuses /\ scoreOut = getDefaultMetrics.risk
  /\ leadData = << >> /\ riskRuns = 0

NextRisk == analyseRisk

SpecRisk == InitRisk /\ [][NextRisk]_vars

\* calculateRiskScore alone, over every combination of the five statuses
InitScore ==
  /\ InitControl /\ InitFilter /\ InitDetector /\ InitReport /\ InitParser
  /\ InitSource /\ InitDerived /\ InitLink /\ InitMonitor
  /\ riskIn = NoRiskInput /\ riskOut = getDefaultMetrics
  /\ scoreIn \in [called : {FALSE}, hr : Statuses, hrv : Statuses,
                   qrs : Statuses, qt : Statuses, st : Statuses]
  /\ scoreOut = getDefaultMetrics.risk
  /\ leadData = << >> /\ riskRuns = 0

NextScore == scoreRisk

SpecScore == InitScore /\ [][NextScore]_vars

\* a synthetic lead II at 125 Hz: R waves of amplitude amp, falling off
\* linearly over half samples on either side, every 750 ms (93.75 samples,
\* placed on the sample grid by rounding down or to the nearest), each
\* followed after 320 ms by a T wave of a fifth of the amplitude when t is
\* set; baseline 0
SynthDesigns ==
  [amp : {1000, 1500}, half : {1, 3, 5, 7, 8}, t : BOOLEAN, first : {20, 47},
   nearest : BOOLEAN, beats : 3..MaxSynthBeats]

BeatAt(d, k) ==
  d.first + (IF d.nearest THEN RoundDiv(750 * REPORT_SAMPLE_RATE * k, 1000)
             ELSE (750 * REPORT_SAMPLE_RATE * k) \div 1000)

\* a wave of the given height and half width centred at c, at index i
Wave(height, half, c, i) ==
  IF Abs(i - c) > half THEN 0
  ELSE (height * (half + 1 - Abs(i - c))) \div (half + 1)

Synthetic(d) ==
  [n \in 1..(BeatAt(d, d.beats - 1) + 60) |->
     LET i == n - 1
         k == CHOOSE b \in 0..(d.beats - 1) :
                /\ BeatAt(d, b) - 20 <= i
                /\ b = d.beats - 1 \/ i < BeatAt(d, b + 1) - 20
     IN IF i < d.first - 20 THEN 0
        ELSE Wave(d.amp, d.half, BeatAt(d, k), i)
               + (IF d.t THEN Wave(d.amp \div 5, 6, BeatAt(d, k) + 40, i) ELSE 0)]

\* the risk analysis over synthetic recordings
InitSynth ==
  /\ InitControl /\ InitFilter /\ InitDetector /\ InitReport /\ InitParser
  /\ InitSource /\ InitDerived /\ InitLink /\ InitMonitor
  /\ riskIn = NoRiskInput /\ riskOut = getDefaultMetrics
  /\ scoreIn = NoStatuses /\ scoreOut = getDefaultMetrics.risk
  /\ leadData \in {Synthetic(d) : d \in SynthDesigns}
  /\ riskRuns = 0

NextSynth == analyseLead

SpecSynth == InitSynth /\ [][NextSynth]_vars

\* the lines of the single-lead device: val2 is the sample, a third field
\* above 0 is the heart rate the device reports
PlainLine == [val1 |-> 0, val2 |-> 0, bpm |-> 0]
PeakLine == [val1 |-> 700, val2 |-> 0, bpm |-> 72]
SampleLines == [val1 : {0, 700}, val2 : {0, 10}, bpm : {0, 72}]

\* the lines a run of SpecMonitorBeats draws from: the device is at rest
\* for the first QuietLines lines
BeatLines ==
  IF serialLines < QuietLines THEN {PlainLine}
  ELSE {l \in SampleLines : l.val1 = 0}

\* a line every 8 ms, the detection interval every 32 ms
PacedLine(lines, maxLines) ==
  /\ monitorNow - lastTickAt < DETECTION_PERIOD_MS
  /\ \E line \in lines : serialLine(line, SAMPLE_PERIOD_MS, maxLines)

\* the monitor reading a paced stream: beats from the detection interval and
\* from the heart rate field
NextMonitorBeats ==
  \/ connectSerial(1)
  \/ PacedLine(BeatLines, MaxMonitorLines)
  \/ detectionTick

SpecMonitorBeats == Init /\ [][NextMonitorBeats]_vars

\* the monitor reading a paced stream of a device at rest until the sample
\* buffer is full and beyond
NextMonitorScan ==
  \/ connectSerial(1)
  \/ PacedLine({PlainLine}, MAX_SAMPLES + MaxScanOverrun)
  \/ detectionTick

SpecMonitorScan == Init /\ [][NextMonitorScan]_vars

\* connecting, disconnecting and testing again, second by second, with a
\* few lines read along the way
NextMonitorSession ==
  \/ connectSerial(MaxCycles)
  \/ disconnectSerial
  \/ resetSession(MaxCycles)
  \/ calibrationTimeout
  \/ recordingTimeout
  \/ timePasses(1000, MountTime + 1000 * MaxSessionSeconds)
  \/ serialLine(PeakLine, 0, MaxSessionLines)
  \/ serialCalibrationComplete(MaxSessionLines)

SpecMonitorSession == Init /\ [][NextMonitorSession]_vars

(* ============================== claims =============================== *)

\* C1: while the calibration flag is true every valid sample line is
\* discarded (no ring-buffer slot written, cursor not advanced, nothing
\* appended to the recording session); once the flag is false a sample line
\* is written to the ring buffers and advances the cursor.
C1_CalibrationDiscardsSamples ==
  [][ (seq' = seq + 1) =>
        IF isCalibrating
          THEN UNCHANGED << bufferRef, writeIndexRef, recordRef >>
          ELSE /\ bufferRef' = RingWrite(bufferRef, writeIndexRef, LineValues(seq'))
               /\ writeIndexRef' = (writeIndexRef + 1) % Len(bufferRef[1]) ]_vars

\* C2: a sample line processed while the session is active and 15 s or more
\* have elapsed since startRecording invokes the auto-stop (the session is
\* stopped by it), and no session is auto-stopped more than once.
C2_AutoStopOncePerSession ==
  [][ /\ (seq' = seq + 1 /\ recordRef.active /\ recordRef.hasData
            /\ recordRef.elapsed >= CaptureTicks)
         => (~recordRef'.active /\ autoStopsInSession' = 1)
      /\ autoStopsInSession' <= 1 ]_vars

C4_AutoStopExcerpt ==
  (reportBy = "auto" /\ stopsInSession = 1) =>
    \A l \in Leads :
      LET arr == recordRef.data[l]
          out == recordedData.leads[l]
          one == sampleRate
          end == CAPTURE_SECONDS * sampleRate
      IN /\ Len(out) = IF Len(arr) >= one THEN one ELSE Len(arr)
         /\ \A i \in 1..Len(out) :
              out[i] = IF Len(arr) >= end
                         THEN arr[end - Len(out) + i]
                         ELSE arr[Len(arr) - Len(out) + i]

\* an auto-stop of a session that holds more samples than the capture
\* boundary, so that the boundary slice and the tail differ
C4_Witness ==
  /\ reportBy = "auto" /\ stopsInSession = 1
  /\ Len(recordRef.data[2]) > CAPTURE_SECONDS * sampleRate
  /\ Len(recordedData.leads[2]) = sampleRate

\* C5: the report stored by an auto-stop carries excerptSeconds = 1 and
\* captureAt = 15; the report stored by a manual stop carries no capture
\* position.
C5_AutoReportTagged ==
  /\ reportBy = "auto" =>
       /\ recordedData.meta.has
       /\ recordedData.meta.excerptSeconds = <<1, 1>>
       /\ recordedData.meta.captureAt = CAPTURE_SECONDS
  /\ reportBy = "manual" => recordedData.meta.captureAt = 0 - 1

\* C6: the report stored by a manual stop holds, for every lead, all the
\* samples appended to the session since startRecording, in arrival order.
C6_ManualStopKeepsAll ==
  (reportBy = "manual" /\ stopsInSession = 1) =>
    \A l \in Leads :
      /\ recordedData.leads[l] = recordRef.data[l]
      /\ Len(recordedData.leads[l]) = recordRef.count
      /\ \A i \in 1..(recordRef.count - 1) :
           recordedData.leads[1][i + 1] = recordedData.leads[1][i] + 2

\* a manual stop of a session holding more samples than one second
C6_Witness ==
  /\ lastOp = "userStop" /\ reportBy = "manual" /\ stopsInSession = 1
  /\ recordRef.count > sampleRate + 1

\* C7: the auto-start timer starts a recording only when the controller is
\* not calibrating, not waiting, not showing the report and no manual stop
\* has occurred; after a manual stop recording begins again only by a user
\* startRecording.
C7_NoAutoStartWhenSuppressed ==
  [][ /\ (lastOp' = "autoStart") =>
           (~isCalibrating /\ ~isWaiting /\ ~showReport /\ ~manualStopRef)
      /\ (manualStopRef /\ ~isRecording /\ isRecording') =>
           lastOp' = "userStart" ]_vars

\* after a manual stop the wait has expired and time has passed with every
\* other auto-start condition true, and no recording has started
C7_Witness ==
  /\ manualStopRef /\ connected /\ ~isCalibrating /\ ~isRecording
  /\ ~showReport /\ ~isWaiting /\ reportBy = "manual"
  /\ sinceStop >= WaitTicks /\ lastOp = "other" /\ autoTimer = NoTimer

\* C8: whenever the auto-start condition holds the settle timer is armed and
\* no tick passes before it fires; when it fires a session starts: active,
\* empty, elapsed time 0, auto-stop guard cleared.
C8_AutoStartAfterSettle ==
  /\ AutoCondNow => (autoTimer # NoTimer /\ settleAge <= SettleTicks)
  /\ lastOp = "autoStart" =>
       /\ isRecording /\ recordRef.active /\ recordRef.hasData
       /\ recordRef.count = 0 /\ recordRef.elapsed = 0
       /\ ~autoStopTriggeredRef /\ ~manualStopRef

C8_Witness ==
  /\ lastOp = "autoStart" /\ isRecording /\ recordRef.active
  /\ connected /\ ~isCalibrating

\* C9 as stated: whenever the calibration flag has become true it is false
\* again no later than 5 s afterwards.
C9_EveryCalibrationEnds ==
  isCalibrating => calibAge * TickMs <= CALIB_TIMEOUT_MS

\* C9 amended: a calibrating phase begun by connect has its timeout pending
\* and ends no later than 5 s after the connect.
C9_ConnectCalibrationEnds ==
  (isCalibrating /\ calibByConnect) =>
    (calibTimeout # NoTimer /\ calibAge * TickMs <= CALIB_TIMEOUT_MS)

\* the timeout has just ended the calibration of a live connection
C9_Witness ==
  /\ lastOp = "calibTimeout" /\ ~isCalibrating /\ connected
  /\ calibTimeout = NoTimer /\ orphanTimeouts = {}

\* C10: every stop puts the controller into waiting, waiting lasts the full
\* 10 s counted from that stop, and the expiry leaves showReport unchanged.
C10_WaitLastsFullPeriod ==
  [][ /\ (stopsInSession' > stopsInSession) => isWaiting'
      /\ (sinceStop' < WaitTicks) => isWaiting'
      /\ (lastOp' = "waitExpire") => showReport' = showReport ]_vars

\* the sample arrays the next render draws
DisplayedNow ==
  Displayed(freezeDisplayRef, frozenBufferRef, bufferRef, writeIndexRef)

\* a step in which startRecording took effect
StartStep == recordRef'.active /\ ~recordRef.active

\* C11: a manual stop freezes the display on the ring-buffer contents of
\* that moment; from then on, until a step in which startRecording takes
\* effect, the snapshot stays in place with unchanged contents (whatever
\* samples arrive and whatever the sample-rate or window inputs are set to)
\* and every render draws the snapshot.
C11_FrozenDisplayHolds ==
  [][ /\ (lastOp' = "userStop" /\ stopsInSession' > stopsInSession) =>
           /\ freezeDisplayRef' /\ frozenBufferRef'.present
           /\ DisplayedNow' = LiveView(bufferRef, writeIndexRef)
      /\ (freezeDisplayRef /\ frozenBufferRef.present /\ ~StartStep) =>
           /\ freezeDisplayRef'
           /\ frozenBufferRef' = frozenBufferRef
           /\ DisplayedNow' = frozenBufferRef.bufs ]_vars

\* the display is frozen, the buffers have since been recreated with
\* another capacity and a sample has been written to them
C11_Witness ==
  /\ freezeDisplayRef /\ frozenBufferRef.present /\ lastOp = "sample"
  /\ Len(frozenBufferRef.bufs[1]) # Len(bufferRef[1])
  /\ \E i \in 1..Len(bufferRef[1]) : bufferRef[1][i] # 0
  /\ \E i \in 1..Len(frozenBufferRef.bufs[1]) : frozenBufferRef.bufs[1][i] # 0

\* the six ring buffers have one capacity, max(1, sampleRate x window), and
\* the cursor lies inside it
BuffersWellFormed ==
  /\ \A l \in Leads : Len(bufferRef[l]) = Max(1, sampleRate * secondsWindow)
  /\ 0 <= writeIndexRef /\ writeIndexRef < Len(bufferRef[1])

\* C12 as stated: in every state the buffers are well formed and a freeze
\* snapshot has exactly the buffers' capacity per lead.
C12_SnapshotHasCapacity ==
  /\ BuffersWellFormed
  /\ frozenBufferRef.present =>
       \A l \in Leads : Len(frozenBufferRef.bufs[l]) = Len(bufferRef[1])

\* C12 amended: in every state the buffers are well formed; a freeze
\* snapshot has, per lead, the capacity the buffers had when it was taken;
\* a sample-rate or window change recreates the buffers (all zero) with the
\* new capacity and puts the cursor at 0.
C12_BuffersWellFormed ==
  [][ /\ BuffersWellFormed /\ BuffersWellFormed'
      /\ (lastOp' = "userStop" /\ stopsInSession' > stopsInSession) =>
           \A l \in Leads : Len(frozenBufferRef'.bufs[l]) = Len(bufferRef[1])
      /\ (sampleRate' # sampleRate \/ secondsWindow' # secondsWindow) =>
           /\ writeIndexRef' = 0
           /\ \A l \in Leads :
                /\ Len(bufferRef'[l]) = Max(1, sampleRate' * secondsWindow')
                /\ \A i \in 1..Len(bufferRef'[l]) : bufferRef'[l][i] = 0 ]_vars

\* the buffers were recreated with capacity 1 by a window below 1 after
\* samples had moved the cursor
C12_Witness ==
  /\ dspOp = "window" /\ secondsWindow < 1 /\ seq >= 2
  /\ Len(bufferRef[1]) = 1 /\ writeIndexRef = 0
  /\ frozenBufferRef.present /\ Len(frozenBufferRef.bufs[1]) > 1

\* C13: a sample write shifts the reading from the cursor by one: the
\* oldest slot leaves, the others keep their order and the new sample is
\* last (the slot before the cursor); recreated buffers read all zero; the
\* freeze snapshot is the reading from the cursor at the manual stop.
C13_ChronologicalRead ==
  [][ /\ (lastOp' = "sample" /\ seq' = seq + 1) =>
           \A l \in Leads :
             LET before == LiveView(bufferRef, writeIndexRef)[l]
                 after == LiveView(bufferRef', writeIndexRef')[l]
                 n == Len(before)
             IN /\ Len(after) = n
                /\ after[n] = LineValues(seq')[l]
                /\ \A i \in 1..(n - 1) : after[i] = before[i + 1]
                /\ bufferRef'[l][((writeIndexRef' + n - 1) % n) + 1]
                     = LineValues(seq')[l]
      /\ (lastOp' = "userStop" /\ stopsInSession' > stopsInSession) =>
           frozenBufferRef'.bufs = LiveView(bufferRef, writeIndexRef) ]_vars

\* a snapshot taken after the cursor wrapped: its first entry is an older
\* sample than its last, while slot 0 of the buffer holds the newest
C13_Witness ==
  /\ lastOp = "userStop" /\ frozenBufferRef.present
  /\ Len(bufferRef[1]) = 2 /\ writeIndexRef = 1
  /\ frozenBufferRef.bufs[1] = << bufferRef[1][2], bufferRef[1][1] >>
  /\ bufferRef[1][2] # 0 /\ bufferRef[1][2] < bufferRef[1][1]

\* all six leads' high-pass and low-pass state is zero
FilterStateZero(hp, lp) ==
  \A l \in Leads : hp[l].x1 = 0 /\ hp[l].y1 = 0 /\ lp[l].y1 = 0

\* C14: a sample-rate change zeroes the filter state of all six leads in
\* the step that installs the coefficients of the new rate, so the state a
\* sample is filtered with has accumulated under the rate of the
\* coefficients in use only; a window change leaves coefficients and state
\* as they were.
C14_RateChangeResetsFilter ==
  [][ /\ (sampleRate' # sampleRate) =>
           /\ FilterStateZero(hpStateRef', lpStateRef')
           /\ hpAlphaRef' = HpAlpha(sampleRate')
           /\ lpAlphaRef' = LpAlpha(sampleRate')
      /\ (dspOp' = "filter" /\ seq' = seq + 1) =>
           /\ stateRates \subseteq {sampleRate}
           /\ hpAlphaRef = HpAlpha(sampleRate)
           /\ lpAlphaRef = LpAlpha(sampleRate)
      /\ (secondsWindow' # secondsWindow) =>
           UNCHANGED << hpStateRef, lpStateRef, hpAlphaRef, lpAlphaRef >> ]_vars

\* a sample filtered from zero state after earlier samples had been
\* filtered under another rate, and a window change that kept that state
C14_Witness ==
  /\ dspOp = "window" /\ seq >= 2 /\ stateRates = {sampleRate}
  /\ hpStateRef[2].x1 = FixedOne * LineValues(seq)[2]
  /\ hpStateRef[2].y1 =
       HpOut(hpAlphaRef, ZeroHp[2], FixedOne * LineValues(seq)[2])
  /\ lpStateRef[2].y1 # 0

\* C15: the detector never moves its last-R-peak timestamp to a time less
\* than 300 ms after the previous one, and every interval it appends to the
\* R-R list is at least 300 ms long.
C15_RefractoryEnforced ==
  [][ /\ (lastRPeakRef # NoPeak /\ lastRPeakRef' # NoPeak
            /\ dspOp' \in {"peak", "beatAccepted", "beatRejected"}) =>
           lastRPeakRef' - lastRPeakRef >= REFRACTORY_MS
      /\ (dspOp' = "beatAccepted") =>
           rrIntervalsRef'[Len(rrIntervalsRef')] >= REFRACTORY_MS ]_vars

\* C16: every interval held in the retained R-R list lies in [333, 1500].
C16_RetainedIntervalsPlausible ==
  \A i \in 1..Len(rrIntervalsRef) :
    rrIntervalsRef[i] >= 333 /\ rrIntervalsRef[i] <= 1500

\* both limits have been retained
C16_Witness ==
  /\ dspOp = "beatAccepted"
  /\ \E i \in 1..Len(rrIntervalsRef) : rrIntervalsRef[i] = 333
  /\ \E i \in 1..Len(rrIntervalsRef) : rrIntervalsRef[i] = 1500

\* C17: the R-R list changes only by an accepted interval; with 3 or more
\* intervals retained an interval is accepted only if it differs from the
\* mean of the last (up to 8) retained ones by at most 30% of that mean; an
\* in-range interval that is rejected leaves the R-R list, the heart rate
\* and the HRV metrics unchanged.
C17_EctopicRejected ==
  [][ /\ (rrIntervalsRef' # rrIntervalsRef) => dspOp' = "beatAccepted"
      /\ (dspOp' = "beatAccepted" /\ Len(rrIntervalsRef) >= 3) =>
           LET k == IF Len(rrIntervalsRef) < 8 THEN Len(rrIntervalsRef) ELSE 8
               recent == SubSeq(rrIntervalsRef, Len(rrIntervalsRef) - k + 1,
                                Len(rrIntervalsRef))
               new == rrIntervalsRef'[Len(rrIntervalsRef')]
           IN 10 * Abs(k * new - SumSeq(recent)) <= 3 * SumSeq(recent)
      /\ (dspOp' = "beatRejected") =>
           UNCHANGED << rrIntervalsRef, heartRate, hrvMetrics >> ]_vars

\* an in-range interval just beyond the 30% limit has been rejected after an
\* interval had been accepted
C17_Witness ==
  /\ dspOp = "beatRejected" /\ Len(rrIntervalsRef) >= 3
  /\ rrIntervalsRef[Len(rrIntervalsRef)] # rrIntervalsRef[1]
  /\ now - lastRPeakRef = 0 /\ seq >= 2

\* C18: the retained R-R list never holds more than 60 entries; accepting
\* an interval when 60 are held drops the oldest one and keeps the others
\* in order, the new one last.
C18_ListCapped ==
  [][ /\ Len(rrIntervalsRef) <= 60 /\ Len(rrIntervalsRef') <= 60
      /\ (dspOp' = "beatAccepted" /\ Len(rrIntervalsRef) = 60) =>
           /\ Len(rrIntervalsRef') = 60
           /\ \A i \in 1..59 : rrIntervalsRef'[i] = rrIntervalsRef[i + 1]
           /\ rrIntervalsRef'[60] = lastRPeakRef' - lastRPeakRef
      /\ (dspOp' = "beatAccepted" /\ Len(rrIntervalsRef) < 60) =>
           rrIntervalsRef' = Append(rrIntervalsRef, lastRPeakRef' - lastRPeakRef)
     ]_vars

\* 60 entries are held after two intervals were accepted into a list that
\* held 59 or 60
C18_Witness ==
  /\ dspOp = "beatAccepted" /\ Len(rrIntervalsRef) = 60
  /\ rrIntervalsRef[59] # rrIntervalsRef[1]
  /\ rrIntervalsRef[60] # rrIntervalsRef[59]

\* round(60000 / mean of the last up-to-4 entries)
C19_Rate(rr) ==
  LET k == IF Len(rr) < 4 THEN Len(rr) ELSE 4
      last == SubSeq(rr, Len(rr) - k + 1, Len(rr))
  IN (2 * 60000 * k + SumSeq(last)) \div (2 * SumSeq(last))

\* C19 as stated: the heart rate is 0 or within [40, 180], and after each
\* accepted beat it is round(60000 / mean of the last up-to-4 intervals).
C19_RateAfterEachBeat ==
  /\ heartRate = 0 \/ (heartRate >= 40 /\ heartRate <= 180)
  /\ dspOp = "beatAccepted" => heartRate = C19_Rate(rrIntervalsRef)

\* C19 amended: the heart rate is 0 or within [40, 180]; after an accepted
\* beat that leaves 2 or more intervals retained it is
\* round(60000 / mean of the last up-to-4 intervals); the first accepted
\* interval leaves it as it was; a rejected beat leaves it as it was.
C19_RateFromTwoIntervals ==
  [][ /\ heartRate' = 0 \/ (heartRate' >= 40 /\ heartRate' <= 180)
      /\ (dspOp' = "beatAccepted" /\ Len(rrIntervalsRef') >= 2) =>
           heartRate' = C19_Rate(rrIntervalsRef')
      /\ (dspOp' = "beatAccepted" /\ Len(rrIntervalsRef') < 2) =>
           heartRate' = heartRate
      /\ (dspOp' # "beatAccepted") => heartRate' = heartRate ]_vars

\* a rate taken from the mean of unequal intervals, different from the
\* rate of the newest interval alone
C19_Witness ==
  /\ dspOp = "beatAccepted" /\ Len(rrIntervalsRef) >= 3
  /\ rrIntervalsRef[Len(rrIntervalsRef)] # rrIntervalsRef[Len(rrIntervalsRef) - 1]
  /\ heartRate = C19_Rate(rrIntervalsRef)
  /\ heartRate # (60000 \div rrIntervalsRef[Len(rrIntervalsRef)])

\* all entries of the list are equal
AllEqual(q) == \A i \in 1..Len(q) : q[i] = q[1]

\* successive peaks are equally far apart
EvenlySpaced(peaks) ==
  \A i \in 2..(Len(peaks) - 1) : peaks[i + 1] - peaks[i] = peaks[2] - peaks[1]

\* C20: computed over 3 or more equal R-R intervals the live HRV metrics
\* have SDNN = 0, RMSSD = 0 and pNN50 = 0 (and the mean is the interval);
\* computed over 3 or more equally spaced peaks the report's HRV has
\* SDNN = 0 and RMSSD = 0.
C20_SteadyRhythmHasNoVariability ==
  /\ (dspOp = "hrv" /\ Len(rrIntervalsRef) >= 3 /\ AllEqual(rrIntervalsRef)) =>
       /\ hrvMetrics.sdnn = 0 /\ hrvMetrics.rmssd = 0 /\ hrvMetrics.pnn50 = 0
       /\ hrvMetrics.meanRR = rrIntervalsRef[1]
  /\ (metrics.computed /\ Len(rPeaks) >= 3 /\ EvenlySpaced(rPeaks)) =>
       /\ metrics.hrv.sdnn = 0 /\ metrics.hrv.rmssd = 0

\* both computations have run over the longest steady inputs
C20_Witness ==
  /\ dspOp = "hrv" /\ Len(rrIntervalsRef) = MaxHrvLen /\ AllEqual(rrIntervalsRef)
  /\ rrIntervalsRef[1] = 800 /\ hrvMetrics.meanRR = 800
  /\ metrics.computed /\ Len(rPeaks) = MaxHrvLen /\ EvenlySpaced(rPeaks)
  /\ metrics.hrv.status = "danger"

(* ------------------------- C21: parser dispatch ----------------------- *)
\* the text has a calibration keyword: 'calibrated', 'calibration complete',
\* 'calibration done', or both 'starting' and 'calibration', in any case
HasCalibrationKeyword(line) ==
  LET w == [i \in 1..Len(line) |-> LowerOf(line[i].s)]
  IN \/ \E i \in 1..Len(line) : w[i] \in {"calibrated", "recalibrated"}
     \/ \E i \in 1..(Len(line) - 2) :
          w[i] = "calibration" /\ line[i + 1] = Blank
            /\ w[i + 2] \in {"complete", "done"}
     \/ /\ \E i \in 1..Len(line) : w[i] = "starting"
        /\ \E i \in 1..Len(line) : w[i] = "calibration"

\* the text is a JSON object that has the six lead keys
HasSixLeadKeys(line) ==
  /\ JSONparse(line).type = "object"
  /\ {LeadKeys[i] : i \in Leads} \subseteq JSONparse(line).keys

\* the line last read went to the parser: not blank, no calibration message
LineParsed == lineIn # NoLine /\ trim(lineIn) # << >> /\ ~HasCalibrationKeyword(lineIn)

\* C21: the parser takes a line as structured exactly when it is an object
\* with the six keys lead1, lead2, lead3, avr, avl, avf; otherwise 6 or more
\* numeric tokens give the first six in order, exactly 2 tokens give I, II
\* and the four derived leads, and any other token count gives no sample.
C21_ParserDispatch ==
  LineParsed =>
    LET t == trim(lineIn)
        tok == match(t)
    IN arrOut =
         IF HasSixLeadKeys(t)
           THEN [i \in Leads |-> parseFloat(JSONparse(t).val[LeadKeys[i]])]
         ELSE IF Len(tok) >= 6
           THEN << tok[1], tok[2], tok[3], tok[4], tok[5], tok[6] >>
         ELSE IF Len(tok) = 2
           THEN << tok[1], tok[2], tok[2] - tok[1],
                   0 - ((tok[1] + tok[2]) \div 2),
                   tok[1] - (tok[2] \div 2), tok[2] - (tok[1] \div 2) >>
         ELSE NoSample

\* an object with the six keys whose text also holds six or more numeric
\* tokens was read and gave its key values
C21_Witness ==
  /\ LineParsed /\ HasSixLeadKeys(trim(lineIn))
  /\ Len(match(trim(lineIn))) >= 6
  /\ arrOut = << 10, 20, 30, 40, 50, 60 >>

(* --------------------- C22: calibration messages ---------------------- *)
\* what a sample reaches: ring buffers and cursor, recording session and
\* report, filter state, beat detector
SampleSinks ==
  << bufferRef, writeIndexRef, recordRef, recordedData, isRecording,
     hpStateRef, lpStateRef, rPeakBufferRef, lastRPeakRef, rrIntervalsRef,
     heartRate, hrvMetrics >>

\* C22: a line that contains a calibration keyword only sets the calibration
\* flag: it gives no sample, numeric tokens or not, and reaches neither the
\* ring buffers, the recording session nor the beat detector.
C22_CalibrationLineGivesNoSample ==
  [][(seq' = seq + 1 /\ HasCalibrationKeyword(lineIn'))
       => (arrOut' = NoSample /\ UNCHANGED SampleSinks)]_vars

\* a calibration message with six numeric tokens was read while a recording
\* session was active, and set the flag
C22_Witness ==
  /\ lineIn # NoLine /\ HasCalibrationKeyword(lineIn)
  /\ Len(match(lineIn)) >= 6
  /\ recordRef.active /\ isCalibrating
  /\ arrOut = NoSample

(* ------------------------ C23: dropped lines -------------------------- *)
\* blank, or neither a calibration message, nor an object with the six
\* keys, nor a text with 2 or with 6 and more numeric tokens
YieldsNoSample(line) ==
  \/ trim(line) = << >>
  \/ /\ ~HasCalibrationKeyword(line)
     /\ ~HasSixLeadKeys(trim(line))
     /\ Len(match(line)) # 2 /\ Len(match(line)) < 6

\* C23: a line that yields no sample is dropped without a trace: ring
\* buffers, cursor, filter state, beat-detector state and recording session
\* stay as they are, the connection stays up and the read loop goes on.
C23_NoSampleLineDropped ==
  [][(seq' = seq + 1 /\ YieldsNoSample(lineIn'))
       => /\ arrOut' = NoSample
          /\ UNCHANGED SampleSinks
          /\ UNCHANGED << connected, readerAlive, runningRef,
                          bluetoothRunningRef >>
          /\ ReaderLive']_vars

\* a line with five numeric tokens was read after a sample had been written
\* to the ring buffers, and the loop is still reading
C23_Witness ==
  /\ lineIn # NoLine /\ YieldsNoSample(lineIn)
  /\ Len(match(lineIn)) = 5
  /\ bufferRef # NewBuffers(sampleRate, secondsWindow)
  /\ arrOut = NoSample /\ ReaderLive

(* ---------------------- C24: chunking of the stream ------------------- *)
\* C24: however the stream is cut into chunks, the line source hands on the
\* newline-separated segments of what has arrived, in order and each once,
\* and keeps the trailing partial line back: lines handed on plus the buffer
\* are exactly the split of the characters taken so far.
C24_LinesIndependentOfChunks ==
  /\ ~sourceClosed => linesOut \o << textBuffer >> = split(consumed)
  /\ SubSeq(linesOut, 1, Len(split(consumed)) - 1) = Complete(split(consumed))
  /\ consumed \o stream \in Texts(MaxStreamLen)

\* a stream with a newline inside and a partial line at its end has arrived
\* whole: its first segment was handed on, the partial line is in the buffer
C24_Witness ==
  /\ ~sourceClosed /\ stream = << >>
  /\ consumed = << "a", Newline, "b", "a" >>
  /\ linesOut = << << "a" >> >> /\ textBuffer = << "b", "a" >>

(* ------------------------- C25: lead derivation ----------------------- *)
\* C25: the derived leads are a function of I and II alone, III = II - I,
\* aVR = -(I + II)/2, aVL = I - II/2, aVF = II - I/2; the live 2-value
\* parse and the derivation at report time give the same values, and
\* deriving again changes nothing.
C25_DerivationIsFunctionOfIandII ==
  derived.paths # {} =>
    /\ derived.leads[1] = derivIn.I /\ derived.leads[2] = derivIn.II
    /\ \A l \in Leads : Len(derived.leads[l]) = Len(derivIn.I)
    /\ \A k \in 1..Len(derivIn.I) :
         LET I == derivIn.I[k]
             II == derivIn.II[k]
         IN /\ derived.leads[3][k] = II - I
            /\ 2 * derived.leads[4][k] = 0 - (I + II)
            /\ 2 * derived.leads[5][k] = 2 * I - II
            /\ 2 * derived.leads[6][k] = 2 * II - I

\* I = 0.5 mV and II = 0.8 mV went through the live parse and then through
\* the derivation at report time
C25_Witness ==
  /\ derived.paths = {"live", "report"}
  /\ derivIn = [I |-> << 500 >>, II |-> << 800 >>]
  /\ derived.leads =
       << << 500 >>, << 800 >>, << 300 >>, << 0 - 650 >>, << 100 >>, << 550 >> >>

(* ------------------ C26: controller state at connect ------------------ *)
\* C26: a connect leaves the capture controller as a first connect finds it:
\* calibrating, no recording session active or holding samples, manual-stop
\* flag, auto-stop guard, frozen display and waiting state cleared.
C26_ConnectResetsController ==
  [][connects' = connects + 1
       => /\ isCalibrating'
          /\ ~recordRef'.active /\ recordRef'.data = EmptyLeads
          /\ ~manualStopRef' /\ ~autoStopTriggeredRef'
          /\ ~freezeDisplayRef' /\ ~isWaiting']_vars

(* ----------------- C27: beat and HRV state at connect ----------------- *)
\* C27: a connect over either link leaves the beat and HRV state empty: no
\* R-R intervals, no last R-peak, empty peak window, heart rate 0, HRV
\* metrics zero; and an R-R interval is only ever measured from a peak of
\* the same connection.
C27_ConnectResetsBeatState ==
  [][/\ connects' = connects + 1
          => /\ rrIntervalsRef' = << >> /\ lastRPeakRef' = NoPeak
             /\ rPeakBufferRef' = << >> /\ heartRate' = 0
             /\ hrvMetrics' = NoHrv
     /\ (lastRPeakRef # NoPeak /\ lastRPeakRef' # lastRPeakRef
           /\ connects' = connects)
          => peakConnect = connects]_vars

\* two peaks were registered on the first connection and two on the second,
\* a Bluetooth one: the second connection has the one interval of its own
C27_Witness ==
  /\ connects = 2 /\ readerAlive = "bluetooth" /\ seq = 4
  /\ Len(rrIntervalsRef) = 1 /\ peakConnect = 2
  /\ now - lastRPeakRef = 0

(* --------------------------- C28: disconnect -------------------------- *)
\* what the program holds apart from the link flags
ProgramState ==
  << connected, isCalibrating, isRecording, isWaiting, showReport,
     recordedData, portRef, runningRef, bluetoothRunningRef, readerAlive,
     calibTimeout, orphanTimeouts, autoStopTriggeredRef, manualStopRef,
     freezeDisplayRef, frozenBufferRef, waitElapsed, autoTimer, SampleSinks >>

\* C28: after disconnect the read loop is stopped: until the next connect no
\* line is processed, so ring buffers, beat detector, recording session and
\* report stay as they are and no auto-stop happens; and a second call of
\* disconnect changes nothing.
C28_DisconnectStopsReading ==
  [][/\ (linkOp \in {"disconnect", "disconnectAgain"} /\ connects' = connects)
          => (UNCHANGED << SampleSinks, autoStopTriggeredRef, lineIn >>
              /\ ~ReaderLive')
     /\ linkOp' = "disconnectAgain" => UNCHANGED ProgramState]_vars

\* disconnect was called twice while a recording session of the closed link
\* held a sample; no line has been read since
C28_Witness ==
  /\ linkOp = "disconnectAgain" /\ ~connected /\ ~ReaderLive
  /\ recordRef.active /\ recordRef.count = 1
  /\ bufferRef # NewBuffers(sampleRate, secondsWindow)

(* ---------------------- C29: heart-rate status ------------------------ *)
\* C29: the heart-rate status of the risk analysis is 'danger' when the rate
\* is below 50 or above 120, 'warning' when it is otherwise below 60 or
\* above 100, and 'normal' in all other cases.
C29_HeartRateStatus ==
  (riskOut.computed /\ riskOut.hr.hr # NoValue) =>
    riskOut.hr.status =
      IF riskOut.hr.hr < 50 \/ riskOut.hr.hr > 120 THEN "danger"
      ELSE IF riskOut.hr.hr < 60 \/ riskOut.hr.hr > 100 THEN "warning"
      ELSE "normal"

(* --------------------- C30: unavailable metrics ----------------------- *)
\* points a status may add to the risk score
C30_Points(metric, status) ==
  IF status = "warning" THEN 1
  ELSE IF status = "danger" THEN (IF metric = "st" THEN 3 ELSE 2)
  ELSE 0

\* C30: heart rate is unavailable ('--', 'unknown') with fewer than 2
\* R-peaks and HRV with fewer than 3 R-R intervals; the other metrics are
\* computed all the same, and the risk score is made up of the points and
\* factors of the available metrics alone.
C30_UnavailableMetricsAreInert ==
  (riskOut.computed /\ riskIn.long) =>
    LET intervals == IF riskIn.peaks = << >> THEN 0 ELSE Len(riskIn.peaks) - 1
    IN /\ Len(riskIn.peaks) < 2 =>
            riskOut.hr.status = "unknown" /\ riskOut.hr.hr = NoValue
       /\ intervals < 3 =>
            riskOut.hrv.status = "unknown" /\ riskOut.hrv.sdnn = NoValue
       /\ riskOut.qrs.status = riskIn.qrs /\ riskOut.st.status = riskIn.st
       /\ riskOut.risk.score =
            C30_Points("hr", riskOut.hr.status)
              + C30_Points("hrv", riskOut.hrv.status)
              + C30_Points("qrs", riskOut.qrs.status)
              + C30_Points("qt", riskOut.qt.status)
              + C30_Points("st", riskOut.st.status)
       /\ Len(riskOut.risk.factors) =
            Cardinality({x \in {"hr", "hrv", "qrs", "qt", "st"} :
                           riskOut[x].status \in {"warning", "danger"}})

(* ----------------------- C31: composite score ------------------------ *)
\* the metrics in the order calculateRiskScore scores them
C31_Metrics == << "hr", "hrv", "qrs", "qt", "st" >>

\* the points the claim gives a status of a metric
C31_Points(metric, status) ==
  IF status = "warning" THEN 1
  ELSE IF status = "danger" THEN (IF metric = "st" THEN 3 ELSE 2)
  ELSE 0

\* the metrics in warning or danger
C31_Triggered == {i \in 1..5 : scoreIn[C31_Metrics[i]] \in {"warning", "danger"}}

\* the metric a factor string belongs to
C31_MetricOf(factor) ==
  IF factor \in {"HR abnormal", "HR critical"} THEN "hr"
  ELSE IF factor \in {"Low HRV", "Very low HRV"} THEN "hrv"
  ELSE IF factor \in {"Wide QRS", "QRS >120ms"} THEN "qrs"
  ELSE IF factor \in {"Borderline QTc", "Prolonged QTc"} THEN "qt"
  ELSE IF factor \in {"ST deviation", "Significant ST change"} THEN "st"
  ELSE "none"

\* C31: for every combination of the five statuses the score is the sum of
\* the per-metric points (warning 1; danger 2 for HR, HRV, QRS, QT and 3 for
\* ST; normal and unknown 0), the level is low below 3, medium from 3 to 5
\* and high from 6, and factors holds exactly one entry for each metric in
\* warning or danger.
C31_ScoreLevelFactors ==
  scoreIn.called =>
    /\ scoreOut.score =
         C31_Points("hr", scoreIn.hr) + C31_Points("hrv", scoreIn.hrv)
           + C31_Points("qrs", scoreIn.qrs) + C31_Points("qt", scoreIn.qt)
           + C31_Points("st", scoreIn.st)
    /\ (scoreOut.level = "low") <=> (scoreOut.score < 3)
    /\ (scoreOut.level = "medium") <=> (3 <= scoreOut.score /\ scoreOut.score < 6)
    /\ (scoreOut.level = "high") <=> (scoreOut.score >= 6)
    /\ Len(scoreOut.factors) = Cardinality(C31_Triggered)
    /\ \A i \in C31_Triggered :
         \E k \in 1..Len(scoreOut.factors) :
           C31_MetricOf(scoreOut.factors[k]) = C31_Metrics[i]

\* the score of an ST segment in danger with every other metric in warning:
\* 7 points, level high, five factors
C31_Witness ==
  /\ scoreIn.called /\ scoreIn.st = "danger"
  /\ scoreIn.hr = "warning" /\ scoreIn.hrv = "warning"
  /\ scoreIn.qrs = "warning" /\ scoreIn.qt = "warning"
  /\ scoreOut.score = 7 /\ scoreOut.level = "high"
  /\ Len(scoreOut.factors) = 5

(* ------------------- C32: synthetic 80 bpm signal -------------------- *)
\* the metrics classify the heart rate as normal and the risk as low
C32_NormalAndLow ==
  riskOut.hr.status = "normal" /\ riskOut.risk.level = "low"

C33_BeatListRefractory ==
  \A k \in 1..(Len(beatsRef) - 1) :
    beatsRef[k + 1] - beatsRef[k] >= MIN_BEAT_INTERVAL

(* ---------------- C38: single-lead scan leaves no gap ----------------- *)
\* C38: every sample appended to the single-lead monitor's sample buffer is
\* examined as a peak candidate by a later detection tick, none is passed
\* over between two ticks, also once the buffer holds 1500 samples and is
\* trimmed at the front.
C38_NoSamplePassedOver == passedOver = NoRange

(* --------------- C39: single-lead session after disconnect ------------ *)
\* C39: once disconnectSerial has completed, monitoringActive and
\* sessionComplete stay false until a new connect, and the timeouts that
\* change the session state are those of the cycle the last connect or reset
\* started.
C39_SessionInertAfterDisconnect ==
  [][/\ ~port' => ~monitoringActive' /\ ~sessionComplete'
     /\ monitorOp' \in {"calibrationTimeout", "recordingTimeout"}
          => firedCycle' = cycles']_vars

(* -------------------- C34: one phase at a time ------------------------ *)
\* C34: the capture controller is in at most one phase at a time: at most
\* one of calibrating, recording and waiting holds in every reachable state.
C34_AtMostOnePhase ==
  /\ ~(isCalibrating /\ isRecording)
  /\ ~(isCalibrating /\ isWaiting)
  /\ ~(isRecording /\ isWaiting)

\* C36: a configuration change made while connected applies to the samples
\* processed afterwards: a sample is filtered exactly when the filter is
\* enabled at the time it is processed
C36_ConfigAppliesToLaterSamples ==
  [][ (seq' = seq + 1 /\ dspOp' \in {"filter", "convert"}) =>
        ((dspOp' = "filter") <=> filterOn) ]_vars

\* C37: the six per-lead sample lists of the recording session always have
\* the same length, the session's sample count; samples are appended only
\* while the session is active; the six lead arrays of a stored report have
\* equal length
C37_Grew == \E l \in Leads : Len(recordRef'.data[l]) > Len(recordRef.data[l])
C37_SessionListsAgree ==
  /\ [](\A l \in Leads : Len(recordRef.data[l]) = recordRef.count)
  /\ [](recordedData.present =>
          \A l \in Leads :
            Len(recordedData.leads[l]) = Len(recordedData.leads[1]))
  /\ [][ C37_Grew => (recordRef.active /\ recordRef'.count = recordRef.count + 1) ]_vars

\* a report of at least two samples per lead is stored and the session that
\* produced it holds its samples, inactive
C37_Witness ==
  /\ recordedData.present
  /\ Len(recordedData.leads[6]) >= 2
  /\ ~recordRef.active /\ recordRef.count >= 2

\* C35: the beat detector recovers after a rhythm change: if from some point
\* on every detected R-R interval is one fixed value within [333, 1500] ms,
\* then eventually that interval is retained again and the smoothed heart
\* rate becomes round(60000 / value), whatever was retained before
C35_DetectorRecovers ==
  \A v \in RhythmRRs :
    <>[](lastRPeakRef = v) =>
      <>(/\ rrIntervalsRef # << >>
         /\ rrIntervalsRef[Len(rrIntervalsRef)] = v
         /\ heartRate = RoundDiv(60000, v))

====
